---------------------------- MODULE Spec2Model ----------------------------
(***************************************************************************)
(* A model of the sigrok DCC protocol decoder (src/dcc/pd.py).             *)
(*                                                                         *)
(*   - the Packet Decoder: Decoder.handleDecodedBytes with incPos,         *)
(*     processCRC, CRC and crc_calc, as operators on a packet, computed    *)
(*     branch by branch as the Python code computes it;                    *)
(*   - the Timing Classifier: isHalf1Bit, is1Bit, is0Bit, isStreched0Bit,  *)
(*     isRailcomCutout, isBroken1BitAfterRailcomCutout;                    *)
(*   - the Frame Synchronizer: one action per pass of the `while True'     *)
(*     loop of Decoder.decode, with processFoundByte and setNextStatus.    *)
(*                                                                         *)
(* Python indexes from 0 and TLA+ sequences from 1: positions (pos) keep   *)
(* the Python value, and the accessors below add 1.                        *)
(*                                                                         *)
(* Durations: the code computes  (edge_b - edge_a)/samplerate*1000000  in  *)
(* microseconds and  accuracy = 1/samplerate*1000000.  The model keeps a   *)
(* duration in quarter microseconds, of which the sample period is a whole *)
(* number at every sample rate drawn.                                      *)
(***************************************************************************)
EXTENDS Integers, Sequences, FiniteSets, TLC

(***************************************************************************)
(* Bit arithmetic on non-negative integers (Python &, ^, >>, <<).          *)
(***************************************************************************)
RECURSIVE And(_, _)
And(a, b) == IF a = 0 \/ b = 0 THEN 0
             ELSE (a % 2) * (b % 2) + 2 * And(a \div 2, b \div 2)

RECURSIVE Xor(_, _)
Xor(a, b) == IF a = 0 THEN b
             ELSE IF b = 0 THEN a
             ELSE ((a + b) % 2) + 2 * Xor(a \div 2, b \div 2)

Pow2(k) == <<1, 2, 4, 8, 16, 32, 64, 128, 256>>[k + 1]

Shr(a, k) == a \div Pow2(k)

Shl(a, k) == a * Pow2(k)

(***************************************************************************)
(* The annotation classes of class Ann (src/dcc/pd.py:42-43).              *)
(***************************************************************************)
AnnClasses == {"BITS", "BITS_OTHER", "FRAME", "FRAME_OTHER", "DATA", "DATA_ACC",
               "DATA_DEC", "DATA_CV", "COMMAND", "INFO", "ERROR", "VARIANCE1",
               "VARIANCE2", "SEARCH_ACC", "SEARCH_DEC", "SEARCH_CV",
               "SEARCH_BYTE", "SEARCH_COMMAND"}

\* One emitted annotation: self.put(ss, es, self.out_ann, [cat, [txt, ...]]).
\* txt is the first (longest) label; a label the code computes from a number
\* keeps its fixed text in txt and the number in val (0 when there is none).
Annotation(ss, es, cat, txt, val) ==
    [ss |-> ss, es |-> es, cat |-> cat, txt |-> txt, val |-> val]

(***************************************************************************)
(* Configuration and decoder fields read by handleDecodedBytes             *)
(* (self.serviceMode, self.speed14, self.AddrOffset, the search criteria). *)
(***************************************************************************)
VARIABLES serviceMode, speed14, AddrOffset,
          acc_addr_search, dec_addr_search, cv_addr_search, byte_search,
          command_search

(***************************************************************************)
(* The packet in hand and the outcome of handleDecodedBytes on it:          *)
(*   packetByte  the argument of handleDecodedBytes;                       *)
(*   flipped     <<>>, or <<i, k>> when bit k of byte i was inverted on    *)
(*               the way to the decoder;                                   *)
(*   result      the frame at the end of the call;                         *)
(*   pc          "ready" before the call, "done" after it.                 *)
(***************************************************************************)
VARIABLES packetByte, flipped, result, pc

cfgVars == <<serviceMode, speed14, AddrOffset, acc_addr_search, dec_addr_search,
             cv_addr_search, byte_search, command_search>>

pktVars == <<packetByte, flipped, result, pc>>

(***************************************************************************)
(* Timing configuration of the decoder:                                    *)
(*   options      the search options as filled in, read again by decode;   *)
(*   samplerate   self.samplerate: kind "unset" while the attribute does   *)
(*                not exist (reset never assigns it), "None" or "int" with *)
(*                the rate hz in Hz once metadata has assigned it;         *)
(*   expTiming    self.timing[timingExperimental], written by start;       *)
(*   accuracy     self.accuracy in quarter microseconds;                   *)
(*   the other names are the fields of the same name.                      *)
(***************************************************************************)
VARIABLES options, samplerate, timingModeNo, rcnAllowStrechedZero,
          timingCompare, ignoreInterferingPulse, preambleBitsCount,
          minCountPreambleBits, expTiming, accuracy

timVars == <<options, samplerate, timingModeNo, rcnAllowStrechedZero,
             timingCompare, ignoreInterferingPulse, preambleBitsCount,
             minCountPreambleBits, expTiming, accuracy>>

(***************************************************************************)
(* The timing classifier on its own:                                       *)
(*   halves    <<part1, part2>>, the two times handed to the classifiers,  *)
(*             in quarter microseconds;                                    *)
(*   verdict   what isHalf1Bit(part1), is1Bit, is0Bit and isStreched0Bit   *)
(*             (part1, part2) answer.                                      *)
(***************************************************************************)
VARIABLES halves, verdict

clsVars == <<halves, verdict>>

(***************************************************************************)
(* The frame synchronizer:                                                 *)
(*   self      the fields of the decoder that decode, processFoundByte and *)
(*             setNextStatus read and write, with the edges edge_0..edge_4 *)
(*             and samplenum;                                              *)
(*   signal    the edge source: the times in microseconds of the edges of  *)
(*             the signal, increasing;                                     *)
(*   out       the annotations put by the last step of decode;             *)
(*   raised    the exception that ended start or decode ("" for none);     *)
(*   handled   the byte values of each packet handed to                    *)
(*             handleDecodedBytes since the last resynchronization error;  *)
(*   errPos    -1, or the sample at which the pass that reported the last  *)
(*             resynchronization error ended (its edge_1);                 *)
(*   phase     "new" after construction, "started" after start,            *)
(*             "decoding" inside the loop of decode, "eof" when the edge   *)
(*             source ran out, "start_failed", "decode_failed" and         *)
(*             "crashed" after an exception in start, at the head of       *)
(*             decode and inside the loop.                                 *)
(***************************************************************************)
VARIABLES self, signal, out, raised, handled, errPos, phase

syncVars == <<self, signal, out, raised, handled, errPos, phase>>

(***************************************************************************)
(* Packet accessors.  A packet is a sequence of byte records               *)
(* <<value, bitPos>>, bitPos the 9 sample positions of the byte.           *)
(***************************************************************************)
\* Python's list index: i in -len..len-1, a negative i counting from the end.
\* An index outside that range is an IndexError in Python; here the sequence
\* application is then undefined and TLC stops with an error.
PyIdx(p, i) == IF i < 0 THEN Len(p) + i + 1 ELSE i + 1

\* packetByte[i][0]
B(p, i) == p[PyIdx(p, i)][1]

\* packetByte[i][1][k]
BitPos(p, i, k) == p[PyIdx(p, i)][2][k + 1]

(***************************************************************************)
(* The local frame of one call of handleDecodedBytes:                      *)
(*   pos, validPacketFound, acc_addr, dec_addr, cv_addr, commandText1..6   *)
(*   are the Python locals; anns the annotations put so far; ret the call  *)
(*   returned early (`if error == True: return'); exc the exception the    *)
(*   call raised ("" for none).                                            *)
(***************************************************************************)
Frame0 == [pos |-> 0, ret |-> FALSE, exc |-> "", anns |-> <<>>,
           validPacketFound |-> FALSE,
           acc_addr |-> -1, dec_addr |-> -1, cv_addr |-> -1,
           commandText1 |-> "", commandText2 |-> "", commandText3 |-> "",
           commandText4 |-> "", commandText5 |-> "", commandText6 |-> ""]

\* Sequencing: the rest of the function runs only if the call has neither
\* returned nor raised.
Then(h, F(_)) == IF h.ret \/ h.exc # "" THEN h ELSE F(h)

Put(h, ss, es, cat, txt, val) ==
    [h EXCEPT !.anns = Append(@, Annotation(ss, es, cat, txt, val))]

putx(h, p, start, end, cat, txt, val) == Put(h, start, end, cat, txt, val)

put_packetbyte(h, p, i, cat, txt, val) ==
    Put(h, BitPos(p, i, 0), BitPos(p, i, 8), cat, txt, val)

put_packetbytes(h, p, start, end, cat, txt, val) ==
    Put(h, BitPos(p, start, 0), BitPos(p, end, 8), cat, txt, val)

incPos(h, p) ==
    IF h.pos + 1 < Len(p)
    THEN [h EXCEPT !.pos = @ + 1]
    ELSE [put_packetbyte(h, p, h.pos, "ERROR", "Byte missing at next position: ", h.pos + 2)
            EXCEPT !.ret = TRUE]

\* commandTextN = t
SetText(h, n, t) ==
    CASE n = 1 -> [h EXCEPT !.commandText1 = t]
      [] n = 2 -> [h EXCEPT !.commandText2 = t]
      [] n = 3 -> [h EXCEPT !.commandText3 = t]
      [] n = 4 -> [h EXCEPT !.commandText4 = t]
      [] n = 5 -> [h EXCEPT !.commandText5 = t]
      [] n = 6 -> [h EXCEPT !.commandText6 = t]

SetText3(h, t1, t2, t3) == SetText(SetText(SetText(h, 1, t1), 2, t2), 3, t3)

SetText456(h, t4, t5, t6) == SetText(SetText(SetText(h, 4, t4), 5, t5), 6, t6)

(***************************************************************************)
(* handleDecodedBytes, service mode (pd.py:413-499): first byte 112..127   *)
(* with self.serviceMode set.                                              *)
(***************************************************************************)
\* pd.py:417-437  Register/Page Mode packet (3 bytes)
ServiceRegisterPage(h0, p) ==
    LET b0 == B(p, h0.pos)
        h1 == put_packetbyte(h0, p, h0.pos, "DATA",
                  IF And(Shr(b0, 3), 1) = 0 THEN "Verify, Register:" ELSE "Write, Register:",
                  And(b0, 7) + 1)
    IN Then(incPos(h1, p), LAMBDA h2 :
         LET h3 == IF B(p, h2.pos - 1) = 125 /\ B(p, h2.pos) = 1
                   THEN put_packetbyte(h2, p, h2.pos, "DATA",
                            "Register/Page Mode (outdated): Page Preset", 0)
                   ELSE put_packetbyte(h2, p, h2.pos, "DATA", "str", B(p, h2.pos))
             h4 == SetText(h3, 1, "Register/Page Mode (outdated)")
             h5 == put_packetbytes(h4, p, h4.pos - 1, h4.pos, "COMMAND",
                                   "Register/Page Mode (outdated)", 0)
         IN [h5 EXCEPT !.validPacketFound = TRUE])

\* pd.py:445-453, 457-465, 469-475: the CV number and its value byte
ServiceCV(h0, p) ==
    Then(incPos(h0, p), LAMBDA h1 :
      LET cv == And(B(p, h1.pos - 1), 3) * 256 + B(p, h1.pos) + 1
          h2 == [h1 EXCEPT !.cv_addr = cv]
          h3 == put_packetbyte(h2, p, h2.pos, "DATA_CV", "str(cv_addr)", cv)
          h4 == put_packetbyte(h3, p, h3.pos, "COMMAND", "CV", 0)
      IN incPos(h4, p))

\* pd.py:476-494, 1100-1118, 1374-1392: bit manipulation operand
BitManipulation(h0, p) ==
    LET b  == B(p, h0.pos)
        h1 == put_packetbyte(h0, p, h0.pos, "DATA",
                  IF And(b, 16) = 16 THEN "Write, " ELSE "Verify, ", And(b, 15))
    IN put_packetbyte(h1, p, h1.pos, "COMMAND", "Operation, Position, Value", 0)

\* pd.py:439-499  direct CV service packet (4 bytes)
ServiceDirect(h0, p) ==
    LET kk == And(Shr(B(p, h0.pos), 2), 3)
        h1 == put_packetbyte(SetText(h0, 1, "Service Mode"), p, h0.pos,
                             "COMMAND", "Service Mode", 0)
        hv == CASE kk = 1 ->
                   Then(ServiceCV(put_packetbyte(h1, p, h1.pos, "DATA", "Verify byte", 0), p),
                     LAMBDA h2 :
                       put_packetbyte(
                         put_packetbyte(h2, p, h2.pos, "DATA", "str", B(p, h2.pos)),
                         p, h2.pos, "COMMAND", "Value", 0))
                [] kk = 3 ->
                   Then(ServiceCV(put_packetbyte(h1, p, h1.pos, "DATA", "Write byte", 0), p),
                     LAMBDA h2 :
                       put_packetbyte(
                         put_packetbyte(h2, p, h2.pos, "COMMAND", "Value", 0),
                         p, h2.pos, "DATA", "str", B(p, h2.pos)))
                [] kk = 2 ->
                   Then(ServiceCV(put_packetbyte(h1, p, h1.pos, "DATA", "Bit manipulation", 0), p),
                     LAMBDA h2 :
                       SetText3(BitManipulation(h2, p), "Operation, Position, Value",
                                "Op.,Pos,Value", "O,P,V"))
                [] OTHER ->
                   put_packetbyte(h1, p, h1.pos, "DATA", "Reserved for future use", 0)
    IN Then(hv, LAMBDA h9 : [h9 EXCEPT !.validPacketFound = TRUE])

\* pd.py:415-499
ServiceMode(h, p) ==
    LET idPacket == B(p, 0)
    IN IF serviceMode /\ 112 <= idPacket /\ idPacket <= 127
       THEN IF Shr(idPacket, 4) = 7 /\ Len(p) = 3 THEN ServiceRegisterPage(h, p)
            ELSE IF Shr(idPacket, 4) = 7 /\ Len(p) = 4 THEN ServiceDirect(h, p)
            ELSE h
       ELSE h

(***************************************************************************)
(* handleDecodedBytes, multi-function decoders (pd.py:506-1193):           *)
(* first byte 0..127 or 192..231.                                          *)
(***************************************************************************)
\* the two top bits of the first byte are kept in the 14 bit address
MultiFunctionAddress_NoMask(h, p) ==
    LET idPacket == B(p, 0)
    IN IF idPacket = 0
       THEN put_packetbyte(
              SetText(put_packetbyte([h EXCEPT !.dec_addr = 0], p, h.pos,
                                     "DATA_DEC", "Broadcast", 0),
                      1, "Broadcast"),
              p, h.pos, "COMMAND", "Broadcast", 0)
       ELSE IF 1 <= idPacket /\ idPacket <= 127
       THEN LET a == And(B(p, h.pos), 127)
            IN put_packetbyte(
                 SetText3(put_packetbyte([h EXCEPT !.dec_addr = a], p, h.pos,
                                         "DATA_DEC", "str(dec_addr)", a),
                          "Multi Function Decoder with 7 bit address",
                          "Decoder with 7 bit address", "7 bit addr."),
                 p, h.pos, "COMMAND", "Multi Function Decoder with 7 bit address", 0)
       ELSE Then(incPos(h, p), LAMBDA h1 :
              LET a == B(p, h1.pos - 1) * 256 + B(p, h1.pos)
              IN put_packetbytes(
                   SetText3(put_packetbytes([h1 EXCEPT !.dec_addr = a], p, h1.pos - 1,
                                            h1.pos, "DATA_DEC", "str(dec_addr)", a),
                            "Multi Function Decoder with 14 bit address",
                            "Decoder with 14 bit address", "14 bit addr."),
                   p, h1.pos - 1, h1.pos, "COMMAND",
                   "Multi Function Decoder with 14 bit address", 0))

\* pd.py:510-532  the address part
MultiFunctionAddress(h, p) ==
    LET idPacket == B(p, 0)
    IN IF idPacket = 0
       THEN put_packetbyte(
              SetText(put_packetbyte([h EXCEPT !.dec_addr = 0], p, h.pos,
                                     "DATA_DEC", "Broadcast", 0),
                      1, "Broadcast"),
              p, h.pos, "COMMAND", "Broadcast", 0)
       ELSE IF 1 <= idPacket /\ idPacket <= 127
       THEN LET a == And(B(p, h.pos), 127)
            IN put_packetbyte(
                 SetText3(put_packetbyte([h EXCEPT !.dec_addr = a], p, h.pos,
                                         "DATA_DEC", "str(dec_addr)", a),
                          "Multi Function Decoder with 7 bit address",
                          "Decoder with 7 bit address", "7 bit addr."),
                 p, h.pos, "COMMAND", "Multi Function Decoder with 7 bit address", 0)
       ELSE \* 192 <= idPacket <= 231
            Then(incPos(h, p), LAMBDA h1 :
              LET a == And(B(p, h1.pos - 1), 63) * 256 + B(p, h1.pos)
              IN put_packetbytes(
                   SetText3(put_packetbytes([h1 EXCEPT !.dec_addr = a], p, h1.pos - 1,
                                            h1.pos, "DATA_DEC", "str(dec_addr)", a),
                            "Multi Function Decoder with 14 bit address",
                            "Decoder with 14 bit address", "14 bit addr."),
                   p, h1.pos - 1, h1.pos, "COMMAND",
                   "Multi Function Decoder with 14 bit address", 0))

\* commandText1..3 = t1..t3 and a COMMAND annotation on the byte at pos
Command3(h, p, t1, t2, t3) ==
    put_packetbyte(SetText3(h, t1, t2, t3), p, h.pos, "COMMAND", t1, 0)

\* commandText1, commandText2 = t1, t2 and a COMMAND annotation on the byte at pos
Command2(h, p, t1, t2) ==
    put_packetbyte(SetText(SetText(h, 1, t1), 2, t2), p, h.pos, "COMMAND", t1, 0)

\* commandText1 = t1 and a COMMAND annotation on the byte at pos
Command1(h, p, t1) ==
    put_packetbyte(SetText(h, 1, t1), p, h.pos, "COMMAND", t1, 0)

\* pd.py:538-605  cmd = 0b000, Decoder Control
DecoderControl(h, p, subcmd) ==
    IF subcmd = 0
    THEN IF h.dec_addr = 0
         THEN Command3(h, p, "Decoder Reset packet", "Dec. Reset", "Reset")
         ELSE Command3(h, p, "Decoder Reset", "Dec. Reset", "Reset")
    ELSE IF subcmd = 1
    THEN Command3(h, p, "Decoder Hard Reset", "Hard Reset", "Reset")
    ELSE IF And(subcmd, 30) = 2
    THEN [Command3(h, p, "Factory Test Instruction", "Fac. Test", "Test")
            EXCEPT !.validPacketFound = TRUE]
    ELSE IF And(subcmd, 30) = 10
    THEN Command3(put_packetbyte(h, p, h.pos, "DATA", "str", And(B(p, h.pos), 1)), p,
                  "Set Advanced Addressing (CV #29 Bit 5)", "Set advanced addressing",
                  "Set adv. addr.")
    ELSE IF subcmd = 15
    THEN Command3(h, p, "Decoder Acknowledgment Request", "Dec. Ack Req.", "Ack Req.")
    ELSE IF And(subcmd, 16) = 16
    THEN Then(incPos(Command1(h, p, "Consist Control"), p), LAMBDA h1 :
           IF And(subcmd, 30) = 18
           THEN put_packetbyte(
                  SetText(SetText(
                    put_packetbyte(h1, p, h1.pos, "DATA",
                       IF And(B(p, h1.pos - 1), 1) = 0 THEN ", dir:normal"
                                                        ELSE ", dir:reverse",
                       And(B(p, h1.pos), 127)),
                    2, "Set consist address"), 3, "Set"),
                  p, h1.pos, "COMMAND", "Set consist address", 0)
           ELSE put_packetbyte(SetText(h1, 2, "Reserved"), p, h1.pos,
                               "COMMAND", "Reserved", 0))
    ELSE Command1(h, p, "Reserved")

\* pd.py:616-636, 691-711  direction and 126-step speed of the byte at pos
Speed126(h, p) ==
    LET b   == B(p, h.pos)
        dir == IF h.dec_addr = 0 THEN "Broadcast"
               ELSE IF Shr(b, 7) = 1 THEN "Forward" ELSE "Reverse"
        s7  == And(b, 127)
    IN IF s7 = 0 THEN put_packetbyte(h, p, h.pos, "DATA", "STOP (" \o dir \o ")", 0)
       ELSE IF s7 = 1
       THEN put_packetbyte(h, p, h.pos, "DATA", "EMERGENCY STOP (HALT) (" \o dir \o ")", 0)
       ELSE put_packetbyte(h, p, h.pos, "DATA", dir \o " Speed: ", s7 - 1)

\* pd.py:712-729  up to four function bytes F0.., while more data + checksum remain
RECURSIVE FunctionBytes(_, _, _)
FunctionBytes(h, p, fs) ==
    IF fs = <<>> THEN h
    ELSE IF Len(p) > h.pos + 2
    THEN Then(incPos(h, p), LAMBDA h1 :
           FunctionBytes(put_packetbyte(h1, p, h1.pos, "DATA",
                                        "F" \o ToString(Head(fs)) \o ":", B(p, h1.pos)),
                         p, Tail(fs)))
    ELSE h

\* pd.py:607-733  cmd = 0b001, Advanced Operations Instruction
AdvancedOperations(h, p, subcmd) ==
    IF subcmd = 31
    THEN Then(incPos(Command2(h, p, "128 Speed Step Control - Instruction",
                              "128 Speed Step"), p),
              LAMBDA h1 : Speed126(h1, p))
    ELSE IF subcmd = 30
    THEN Then(incPos(h, p), LAMBDA h1 :
           LET h2 == SetText(SetText(h1, 1,
                       "Special operation mode (unless received via consist address in CV#19)"),
                       2, "Special operation mode")
               h3 == put_packetbytes(h2, p, h2.pos - 1, h2.pos, "COMMAND",
                       "Special operation mode (unless received via consist address in CV#19)", 0)
               kk == And(Shr(B(p, h3.pos), 2), 3)
           IN put_packetbytes(h3, p, h3.pos - 1, h3.pos, "DATA",
                 CASE kk = 0 -> "Not part of a multiple traction"
                   [] kk = 2 -> "Leading loco of multiple traction"
                   [] kk = 1 -> "Middle loco in a multiple traction"
                   [] kk = 3 -> "Final loco of a multiple traction",
                 Shr(B(p, h3.pos), 4)))
    ELSE IF subcmd = 29
    THEN Then(incPos(Command1(h, p, "Analog Function Group"), p), LAMBDA h1 :
           LET b  == B(p, h1.pos)
               h2 == IF b = 1
                     THEN put_packetbyte(SetText(h1, 2, "Volume control"), p, h1.pos,
                                         "COMMAND", "Volume control", 0)
                     ELSE IF 16 <= b /\ b <= 31
                     THEN put_packetbyte(
                            SetText(put_packetbyte(h1, p, h1.pos, "DATA", "str", And(b, 15)),
                                    2, "Position control"),
                            p, h1.pos, "COMMAND", "Position control", 0)
                     ELSE IF 128 <= b /\ b <= 255
                     THEN put_packetbyte(
                            SetText(put_packetbyte(h1, p, h1.pos, "DATA", "str", And(b, 127)),
                                    2, "Any control"),
                            p, h1.pos, "COMMAND", "Any control", 0)
                     ELSE put_packetbyte(SetText(h1, 2, "Reserved"), p, h1.pos,
                                         "COMMAND", "Reserved", 0)
           IN Then(incPos(h2, p), LAMBDA h3 :
                put_packetbyte(put_packetbyte(h3, p, h3.pos, "DATA", "str", B(p, h3.pos)),
                               p, h3.pos, "COMMAND", "Data", 0)))
    ELSE IF subcmd = 28
    THEN Then(incPos(Command1(h, p, "Speed, Direction, Function"), p), LAMBDA h1 :
           FunctionBytes(Speed126(h1, p), p, <<0, 8, 16, 24>>))
    ELSE Command1(h, p, "Reserved")

SpeedDirection_NoBroadcast(h, p, cmd, subcmd) ==
    LET h1   == IF speed14
                THEN Command3(h, p,
                       "Basis Speed and Direction Instruction 14 speed step mode (CV#29=0)",
                       "Speed + Dir. 14 step", "Speed 14")
                ELSE Command3(h, p,
                       "Basis Speed and Direction Instruction 28 speed step mode (CV#29=1)",
                       "Speed + Dir. 28 step", "Speed 28")
        bit5 == Shr(And(subcmd, 16), 4)
        dir  == IF And(cmd, 1) = 1 THEN "Forward" ELSE "Reverse"
        s4   == And(subcmd, 15)
        txt  == IF s4 = 0 THEN "STOP (" \o dir \o ")"
                ELSE IF s4 = 1 THEN "EMERGENCY STOP (HALT) (" \o dir \o ")"
                ELSE dir \o " Speed: "
        val  == IF s4 <= 1 THEN 0
                ELSE IF speed14 THEN s4 - 1
                ELSE ((s4 - 1) * 2 - 1) + bit5
    IN put_packetbyte(h1, p, h1.pos, "DATA", txt, val)

\* pd.py:735-785  cmd = 0b010 / 0b011, Basis Speed and Direction Instruction
SpeedDirection(h, p, cmd, subcmd) ==
    LET h1   == IF speed14
                THEN Command3(h, p,
                       "Basis Speed and Direction Instruction 14 speed step mode (CV#29=0)",
                       "Speed + Dir. 14 step", "Speed 14")
                ELSE Command3(h, p,
                       "Basis Speed and Direction Instruction 28 speed step mode (CV#29=1)",
                       "Speed + Dir. 28 step", "Speed 28")
        bit5 == Shr(And(subcmd, 16), 4)
        dir  == IF h.dec_addr = 0 THEN "Broadcast"
                ELSE IF And(cmd, 1) = 1 THEN "Forward" ELSE "Reverse"
        s4   == And(subcmd, 15)
        txt  == IF s4 = 0 THEN "STOP (" \o dir \o ")"
                ELSE IF s4 = 1 THEN "EMERGENCY STOP (HALT) (" \o dir \o ")"
                ELSE dir \o " Speed: "
        val  == IF s4 <= 1 THEN 0
                ELSE IF speed14 THEN s4 - 1
                ELSE ((s4 - 1) * 2 - 1) + bit5
    IN put_packetbyte(h1, p, h1.pos, "DATA", txt, val)

\* pd.py:787-818  cmd = 0b100, Function Group One Instruction
FunctionGroupOne(h, p, subcmd) ==
    LET h1 == IF speed14
              THEN Command3(h, p,
                     "Function Group One Instruction 14 speed step mode (CV#29=0)",
                     "FG1 14 step", "FG1")
              ELSE Command3(h, p,
                     "Function Group One Instruction 28/128 speed step mode (CV#29=1)",
                     "FG1 28/128 step", "FG1")
    IN put_packetbyte(h1, p, h1.pos, "DATA", IF speed14 THEN "F1:" ELSE "F0:", subcmd)

\* pd.py:820-841  cmd = 0b101, Function Group Two Instruction
FunctionGroupTwo(h, p, subcmd) ==
    LET h1 == Command2(h, p, "Function Group Two Instruction", "FG2")
    IN put_packetbyte(h1, p, h1.pos, "DATA",
                      IF And(subcmd, 16) = 16 THEN "F5:" ELSE "F9:", And(subcmd, 15))

\* pd.py:156-163  self.weekday
weekday == <<"Monday", "Tuesday", "Wednesday", "Thursday", "Friday", "Saturday",
             "Sunday">>

\* pd.py:172-185  self.month
month == <<"?", "Jan. ", "Feb. ", "Mar. ", "Apr. ", "Mai ", "Jun. ", "Jul. ", "Aug. ",
           "Sep. ", "Oct. ", "Nov. ", "Dec. ">>

\* Python's list[i] for i >= 0: the index is in range iff i < len(list);
\* otherwise the subscription raises IndexError.
InRange(list, i) == i < Len(list)

\* pd.py:849-875  F13 - F68
FunctionsF13toF68(h, p, subcmd) ==
    LET f == CASE subcmd = 30 -> 13 [] subcmd = 31 -> 21 [] subcmd = 24 -> 29
               [] subcmd = 25 -> 37 [] subcmd = 26 -> 45 [] subcmd = 27 -> 53
               [] subcmd = 28 -> 61
    IN put_packetbyte(h, p, h.pos, "DATA", "F" \o ToString(f) \o ":", B(p, h.pos))

\* pd.py:877-925  Binary State Control Instruction short form
BinaryStateShort(h, p) ==
    LET b       == B(p, h.pos)
        address == And(b, 127)
        h1 == put_packetbyte(
                SetText(SetText(h, 1, "Binary State Control Instruction short form"),
                        2, "Binarystate short"),
                p, h.pos - 1, "DATA", "Binary State Control Instruction short form", 0)
    IN IF address = 0
       THEN put_packetbyte(
              SetText(put_packetbyte(h1, p, h1.pos, "DATA", "str", Shr(b, 7)),
                      3, "Broadcast F29-F127"),
              p, h1.pos, "COMMAND", "Broadcast F29-F127", 0)
       ELSE IF 1 <= address /\ address <= 15
       THEN put_packetbyte(
              SetText(put_packetbyte(h1, p, h1.pos, "DATA",
                        IF Shr(b, 7) = 0 THEN "XF=:off" ELSE "XF=:on", address),
                      3, "RailCom"),
              p, h1.pos, "COMMAND", "RailCom", 0)
       ELSE IF 16 <= address /\ address <= 28
       THEN put_packetbyte(
              SetText(put_packetbyte(h1, p, h1.pos, "DATA", "hex/str", b),
                      3, "Special uses"),
              p, h1.pos, "COMMAND", "Special uses", 0)
       ELSE put_packetbyte(h1, p, h1.pos, "DATA",
              IF Shr(B(p, h1.pos - 1), 7) = 0 THEN "F:off" ELSE "F:on", address)

\* pd.py:927-946  Binary State Control Instruction long form
BinaryStateLong(h, p) ==
    LET h1 == put_packetbyte(
                SetText(SetText(h, 1, "Binary State Control Instruction long form"),
                        2, "Binarystate long"),
                p, h.pos - 1, "DATA", "Binary State Control Instruction long form", 0)
    IN Then(incPos(h1, p), LAMBDA h2 :
         LET address  == B(p, h2.pos) * 128 + And(B(p, h2.pos - 1), 127)
             output_1 == IF Shr(B(p, h2.pos - 1), 7) = 0 THEN "off" ELSE "on"
         IN IF address = 0
            THEN put_packetbytes(
                   SetText(put_packetbytes(h2, p, h2.pos - 1, h2.pos, "DATA", output_1, 0),
                           3, "Broadcast F29-F32767"),
                   p, h2.pos - 1, h2.pos, "COMMAND", "Broadcast F29-F32767", 0)
            ELSE IF And(B(p, h2.pos - 1), 127) = 0
            THEN put_packetbytes(h2, p, h2.pos - 1, h2.pos, "ERROR",
                                 "Use binarystate short", 0)
            ELSE put_packetbytes(h2, p, h2.pos - 1, h2.pos, "DATA",
                                 "F:" \o output_1, address))

\* pd.py:950-951, 987-988
OnlyBroadcast(h, p) ==
    IF h.dec_addr # 0
    THEN put_packetbytes(h, p, 0, Len(p) - 2, "ERROR", "Only Broadcast allowed", 0)
    ELSE h

\* pd.py:948-983  Model-Time and Model-Date
ModelTimeDate(h0, p) ==
    LET h     == OnlyBroadcast(h0, p)
        value == B(p, h.pos)
        kk    == And(Shr(value, 6), 3)
    IN IF kk = 0
       THEN LET h1 == put_packetbyte(
                        put_packetbyte(SetText(h, 1, "Model-Time"), p, h.pos - 1,
                                       "DATA", "Model-Time", 0),
                        p, h.pos, "COMMAND", "00MMMMMM", 0)
            IN Then(incPos(h1, p), LAMBDA h2 :
                 Then(incPos(put_packetbyte(h2, p, h2.pos, "COMMAND", "WWWHHHHH", 0), p),
                   LAMBDA h3 :
                     LET h4 == put_packetbyte(h3, p, h3.pos, "COMMAND", "U0BBBBBB", 0)
                         w  == Shr(B(p, h4.pos - 1), 5)
                     IN IF InRange(weekday, w)
                        THEN put_packetbytes(h4, p, h4.pos - 2, h4.pos, "DATA",
                                             weekday[w + 1] \o " hrs", 0)
                        ELSE [h4 EXCEPT !.exc = "IndexError"]))
       ELSE IF kk = 1
       THEN LET h1 == put_packetbyte(
                        put_packetbyte(SetText(h, 1, "Model-Date"), p, h.pos - 1,
                                       "DATA", "Model-Date", 0),
                        p, h.pos, "COMMAND", "010TTTTT", 0)
            IN Then(incPos(h1, p), LAMBDA h2 :
                 Then(incPos(put_packetbyte(h2, p, h2.pos, "COMMAND", "MMMMYYYY", 0), p),
                   LAMBDA h3 :
                     LET h4 == put_packetbyte(h3, p, h3.pos, "COMMAND", "YYYYYYYY", 0)
                         m  == Shr(B(p, h4.pos - 1), 4)
                     IN IF InRange(month, m)
                        THEN put_packetbytes(h4, p, h4.pos - 2, h4.pos, "DATA",
                               month[m + 1],
                               Shl(And(B(p, h4.pos - 1), 15), 8) + B(p, h4.pos))
                        ELSE [h4 EXCEPT !.exc = "IndexError"]))
       ELSE put_packetbytes(
              put_packetbyte(h, p, h.pos - 1, "DATA", "Reserved", 0),
              p, h.pos - 2, h.pos, "DATA", "Reserved", 0)

\* pd.py:985-1014  Systemtime; val keeps value \div 256 for the four byte form
\* (the 32 bit value itself is only printed)
Systemtime(h0, p) ==
    LET n  == Len(p)
        h1 == OnlyBroadcast(h0, p)
        h2 == IF n = 5 \/ n = 6
              THEN put_packetbyte(SetText(h1, 1, "Systemtime"), p, h1.pos - 1,
                                  "DATA", "Systemtime", 0)
              ELSE h1
        h3 == IF n = 7 \/ n = 8
              THEN put_packetbyte(SetText(h2, 1, "Systemtime (deprecated)"), p, h2.pos - 1,
                                  "DATA", "Systemtime (deprecated)", 0)
              ELSE h2
        h4 == put_packetbyte(h3, p, h3.pos, "COMMAND", "MMMMMMMM", 0)
        v1 == B(p, h4.pos)
    IN Then(incPos(h4, p), LAMBDA h5 :
         LET h6 == put_packetbyte(h5, p, h5.pos, "COMMAND", "MMMMMMMM", 0)
             v2 == v1 * 256 + B(p, h6.pos)
             h7 == IF n = 5 \/ n = 6
                   THEN put_packetbytes(h6, p, h6.pos - 1, h6.pos, "DATA",
                                        "ms since systemstart (seconds)", v2)
                   ELSE h6
         IN IF n = 7 \/ n = 8
            THEN Then(incPos(h7, p), LAMBDA h8 :
                   LET h9 == put_packetbyte(h8, p, h8.pos, "COMMAND", "MMMMMMMM", 0)
                       v3 == v2 * 256 + B(p, h9.pos)
                   IN Then(incPos(h9, p), LAMBDA h10 :
                        put_packetbytes(
                          put_packetbyte(h10, p, h10.pos, "COMMAND", "MMMMMMMM", 0),
                          p, h10.pos - 3, h10.pos, "DATA",
                          "ms since systemstart (minutes = hours)", v3)))
            ELSE h7)

\* pd.py:843-1017  cmd = 0b110, Future Expansion Instruction
FutureExpansion(h, p, subcmd) ==
    Then(incPos(h, p), LAMBDA h1 :
      LET h2 == put_packetbyte(SetText(h1, 1, "Future Expansion Instruction"), p,
                               h1.pos - 1, "COMMAND", "Future Expansion Instruction", 0)
      IN IF subcmd \in {31, 30, 28, 27, 26, 25, 24} THEN FunctionsF13toF68(h2, p, subcmd)
         ELSE IF subcmd = 29 THEN BinaryStateShort(h2, p)
         ELSE IF subcmd = 0 THEN BinaryStateLong(h2, p)
         ELSE IF subcmd = 1 THEN ModelTimeDate(h2, p)
         ELSE IF subcmd = 2 THEN Systemtime(h2, p)
         ELSE Command1(h2, p, "Reserved"))

\* a DATA annotation with the byte's value and a COMMAND annotation txt on the
\* byte at pos (pd.py:1033-1034 and alike)
DataCommand(h, p, txt) ==
    put_packetbyte(put_packetbyte(h, p, h.pos, "DATA", "str", B(p, h.pos)),
                   p, h.pos, "COMMAND", txt, 0)

\* pd.py:1020-1068  Configuration Variable Access Instruction - Short Form
CVShort(h0, p, subcmd) ==
    LET h  == Command3(h0, p, "Configuration Variable Access Instruction - Short Form",
                       "CV Access Instruction short", "CV short")
        s4 == And(subcmd, 15)
        D(t) == put_packetbyte(h, p, h.pos, "DATA", t, 0)
    IN IF s4 = 0 THEN D("Not available for use")
       ELSE IF s4 = 2
       THEN Then(incPos(D("Acceleration Value (CV#23)"), p),
                 LAMBDA h1 : DataCommand(h1, p, "Data"))
       ELSE IF s4 = 3
       THEN Then(incPos(D("Deceleration Value (CV#24)"), p),
                 LAMBDA h1 : DataCommand(h1, p, "Data"))
       ELSE IF s4 = 4
       THEN Then(incPos(D("Write CV#17 + CV#18"), p), LAMBDA h1 :
              Then(incPos(DataCommand(h1, p, "CV17"), p),
                   LAMBDA h2 : DataCommand(h2, p, "CV18")))
       ELSE IF s4 = 5
       THEN Then(incPos(D("Write CV#31 + CV#32"), p), LAMBDA h1 :
              Then(incPos(DataCommand(h1, p, "CV31"), p),
                   LAMBDA h2 : DataCommand(h2, p, "CV32")))
       ELSE IF s4 = 9
       THEN Then(incPos(D("Reserved (outdated: Service Mode Decoder Lock Instruction)"), p),
              LAMBDA h1 :
                put_packetbyte(
                  put_packetbyte(h1, p, h1.pos, "DATA", "str", And(B(p, h1.pos), 127)),
                  p, h1.pos, "COMMAND", "Short address", 0))
       ELSE D("Reserved (maybe service mode packet)")

\* pd.py:1100-1118, 1374-1392  bit manipulation operand of a POM packet
\* (commandText4..6 instead of 1..3)
BitManipulationPOM(h0, p) ==
    LET b  == B(p, h0.pos)
        h1 == put_packetbyte(h0, p, h0.pos, "DATA",
                  IF And(b, 16) = 16 THEN "Write, " ELSE "Verify, ", And(b, 15))
    IN put_packetbyte(
         SetText456(h1, "Operation, Position, Value", "Op.,Pos,Value", "O,P,V"),
         p, h1.pos, "COMMAND", "Operation, Position, Value", 0)

\* pd.py:1070-1122  Configuration Variable Access Instruction - Long Form (POM)
CVLongPOM(h0, p, subcmd) ==
    LET h  == Command3(h0, p,
                "Configuration Variable Access Instruction - Long Form (POM)",
                "CV Access Instruction long (POM)", "CV long (POM)")
        kk == And(Shr(subcmd, 2), 3)
    IN IF kk \in {1, 3, 2}
       THEN LET h1 == put_packetbyte(h, p, h.pos, "DATA",
                        IF kk = 1 THEN "Read/Verify byte"
                        ELSE IF kk = 3 THEN "Write byte" ELSE "Bit manipulation", 0)
            IN Then(ServiceCV(h1, p), LAMBDA h2 :
                 IF kk # 2 THEN DataCommand(h2, p, "Value")
                           ELSE BitManipulationPOM(h2, p))
       ELSE put_packetbyte(h, p, h.pos, "DATA", "Reserved for future use", 0)

\* pd.py:1177-1191  up to three more XPOM data bytes
RECURSIVE XpomData(_, _, _)
XpomData(h, p, ks) ==
    IF ks = <<>> THEN h
    ELSE IF Len(p) > h.pos + 2
    THEN Then(incPos(h, p), LAMBDA h1 :
           XpomData(put_packetbyte(
                      put_packetbyte(h1, p, h1.pos, "COMMAND",
                                     "Data-" \o ToString(Head(ks)), 0),
                      p, h1.pos, "DATA", "str", B(p, h1.pos)),
                    p, Tail(ks)))
    ELSE XpomData(h, p, Tail(ks))

\* pd.py:1124-1193  XPOM
XPOM(h0, p, subcmd) ==
    LET h  == Command1(h0, p, "XPOM")
        kk == And(Shr(subcmd, 2), 3)
    IN IF kk \in {1, 3, 2}
       THEN LET h1 == put_packetbyte(h, p, h.pos, "DATA",
                        IF kk = 1 THEN "Read bytes, SS:"
                        ELSE IF kk = 3 THEN "Write byte(s), SS:" ELSE "Bit write, SS:",
                        And(B(p, h.pos), 3))
            IN Then(incPos(h1, p), LAMBDA h2 :
               Then(incPos(h2, p), LAMBDA h3 :
               Then(incPos(h3, p), LAMBDA h4 :
                 LET cv == (B(p, h4.pos - 2) * 256 + B(p, h4.pos - 1)) * 256
                           + B(p, h4.pos) + 1
                     h5 == put_packetbytes(
                             put_packetbytes([h4 EXCEPT !.cv_addr = cv], p, h4.pos - 2,
                                             h4.pos, "DATA_CV", "str(cv_addr)", cv),
                             p, h4.pos - 2, h4.pos, "COMMAND", "CV", 0)
                 IN IF kk = 1 THEN h5
                    ELSE Then(incPos(h5, p), LAMBDA h6 :
                           IF kk = 2 /\ Shr(B(p, h6.pos), 4) = 15
                           THEN put_packetbyte(
                                  SetText456(
                                    put_packetbyte(h6, p, h6.pos, "DATA", "str, bit",
                                                   And(B(p, h6.pos), 15)),
                                    "Position, Value", "Pos, Value", "P,V"),
                                  p, h6.pos, "COMMAND", "Position, Value", 0)
                           ELSE IF kk = 3
                           THEN XpomData(
                                  put_packetbyte(
                                    put_packetbyte(SetText(h6, 4, "Data"), p, h6.pos,
                                                   "COMMAND", "Data-1", 0),
                                    p, h6.pos, "DATA", "str", B(p, h6.pos)),
                                  p, <<2, 3, 4>>)
                           ELSE h6))))
       ELSE put_packetbyte(h, p, h.pos, "DATA", "Reserved for future use", 0)

\* pd.py:1019-1193  cmd = 0b111, Configuration Variable Access Instruction
CVAccess(h, p, subcmd) ==
    IF And(subcmd, 16) = 16 THEN CVShort(h, p, subcmd)
    ELSE IF (h.pos = 1 /\ Len(p) = 5) \/ (h.pos = 2 /\ Len(p) = 6)
    THEN CVLongPOM(h, p, subcmd)
    ELSE IF (h.pos = 1 /\ Len(p) >= 6) \/ (h.pos = 2 /\ Len(p) >= 7)
    THEN XPOM(h, p, subcmd)
    ELSE h

\* pd.py:506-1193  Multi-Function Decoder
MultiFunctionDecoder(h, p) ==
    Then(MultiFunctionAddress(h, p), LAMBDA h1 :
      Then(incPos(h1, p), LAMBDA h2 :
        LET cmd    == Shr(And(B(p, h2.pos), 224), 5)
            subcmd == And(B(p, h2.pos), 31)
        IN CASE cmd = 0 -> DecoderControl(h2, p, subcmd)
             [] cmd = 1 -> AdvancedOperations(h2, p, subcmd)
             [] cmd \in {2, 3} -> SpeedDirection(h2, p, cmd, subcmd)
             [] cmd = 4 -> FunctionGroupOne(h2, p, subcmd)
             [] cmd = 5 -> FunctionGroupTwo(h2, p, subcmd)
             [] cmd = 6 -> FutureExpansion(h2, p, subcmd)
             [] cmd = 7 -> CVAccess(h2, p, subcmd)))

(***************************************************************************)
(* handleDecodedBytes, accessory decoders (pd.py:1195-1396): first byte    *)
(* 128..191.                                                               *)
(***************************************************************************)
\* pd.py:1213-1219  the address fields of the two bytes at pos-1 and pos
AccA1(p, pos) == And(B(p, pos - 1), 63)

\* the three address bits of the second byte taken as they are
AccA2_NotInverted(p, pos) == And(Shr(B(p, pos), 4), 7)

\* pd.py:1214  3 bits addr. low (inverted)
AccA2(p, pos) == 7 - And(Shr(B(p, pos), 4), 7)

AccA3(p, pos) == Shr(And(B(p, pos), 6), 1)

AccDecaddr(p, pos) == Shl(AccA2(p, pos), 8) + Shl(AccA1(p, pos), 2) + AccA3(p, pos) - 3

\* the DATA_ACC annotation 'acc_addr (decoder:.., port:..)' on bytes i..j
PutAccAddr(h, p, i, j) ==
    put_packetbytes(h, p, i, j, "DATA_ACC", "str(acc_addr)", h.acc_addr)

\* pd.py:1224-1239  Railcom NOP (AccQuery)
AccessoryNOP(h, p) ==
    LET h1 == put_packetbyte(
                SetText(SetText(h, 1, "Railcom NOP (AccQuery)"), 2, "RC NOP"),
                p, h.pos, "DATA", "Railcom NOP (AccQuery)", 0)
        h2 == put_packetbyte(h1, p, h1.pos - 1, "DATA_ACC", "str(acc_addr)", h1.acc_addr)
    IN IF And(B(p, h2.pos), 1) = 0
       THEN put_packetbyte(
              SetText456(h2, "Basic Accessory Decoder", "Basic Accessory", "Basic Acc."),
              p, h2.pos - 1, "COMMAND", "Basic Accessory Decoder", 0)
       ELSE put_packetbyte(
              SetText(SetText(h2, 4, "Extended Accessory Decoder"), 5, "Ext. Acc."),
              p, h2.pos - 1, "COMMAND", "Extended Accessory Decoder", 0)

\* pd.py:1242-1282  Basic Accessory Decoder packet of 3 or 4 bytes
AccessoryBasic(h0, p) ==
    LET h == put_packetbyte(
               SetText3(h0, "Basic Accessory Decoder", "Basic Accessory", "Basic Acc."),
               p, h0.pos - 1, "COMMAND", "Basic Accessory Decoder", 0)
        b == B(p, h.pos)
    IN IF h.acc_addr + 3 = 2047
       THEN IF And(Shr(b, 3), 1) = 0 /\ And(b, 1) = 0
            THEN put_packetbyte(
                   put_packetbyte(
                     SetText(SetText(
                       put_packetbyte(h, p, h.pos - 1, "DATA_ACC", "Broadcast", 0),
                       4, "Broadcast"), 5, "ESTOP"),
                     p, h.pos - 1, "COMMAND", "Broadcast", 0),
                   p, h.pos, "DATA", "ESTOP", 0)
            ELSE put_packetbyte(h, p, h.pos, "INFO", "Unknown (maybe NMRA-Broadcast)", 0)
       ELSE IF Len(p) = 3
       THEN put_packetbyte(PutAccAddr(h, p, h.pos - 1, h.pos - 1), p, h.pos, "DATA",
                           IF And(Shr(b, 3), 1) = 0 THEN ":off" ELSE ":on", And(b, 1))
       ELSE IF Len(p) = 4 /\ And(b, 9) = 0
       THEN Then(incPos(h, p), LAMBDA h1 :
              IF B(p, h1.pos) = 0
              THEN put_packetbyte(
                     SetText(SetText(PutAccAddr(h1, p, h1.pos - 1, h1.pos - 1),
                                     4, "Decoder reset"), 5, "Reset"),
                     p, h1.pos, "COMMAND", "Decoder reset", 0)
              ELSE put_packetbytes(h1, p, h1.pos - 1, h1.pos, "INFO", "Unknown", 0))
       ELSE put_packetbyte(h, p, h.pos, "INFO", "Unknown", 0)

\* pd.py:1284-1298, 1333-1347  POM header of a 6 byte accessory packet; the
\* result carries whether the code set pom = True
AccessoryPOMHeader(h, p, t1, t2, t3) ==
    LET h1 == incPos(h, p)
    IN IF h1.ret THEN [h |-> h1, pom |-> FALSE]
       ELSE IF Shr(B(p, h1.pos), 4) = 14
       THEN [h |-> put_packetbyte(
                     PutAccAddr(
                       put_packetbyte(SetText3(h1, t1, t2, t3), p, h1.pos - 2,
                                      "COMMAND", t1, 0),
                       p, h1.pos - 1, h1.pos - 1),
                     p, h1.pos - 1, "COMMAND", "Address", 0),
             pom |-> TRUE]
       ELSE [h |-> put_packetbytes(h1, p, h1.pos - 2, h1.pos, "INFO", "Unknown", 0),
             pom |-> FALSE]

\* pd.py:1302-1331  Extended Accessory Decoder Control Packet (4 bytes)
AccessoryExtended(h0, p) ==
    LET h == put_packetbyte(
               SetText3(h0, "Extended Accessory Decoder Control Packet",
                        "Extended Accessory", "Ext. Acc."),
               p, h0.pos - 1, "COMMAND", "Extended Accessory Decoder Control Packet", 0)
    IN Then(incPos(h, p), LAMBDA h1 :
         LET b == B(p, h1.pos)
         IN IF h1.acc_addr + 3 = 2047
            THEN IF b = 0
                 THEN put_packetbyte(
                        put_packetbyte(
                          SetText(SetText(
                            put_packetbyte(h1, p, h1.pos - 1, "DATA_ACC", "Broadcast", 0),
                            4, "Broadcast"), 5, "ESTOP"),
                          p, h1.pos - 1, "COMMAND", "Broadcast", 0),
                        p, h1.pos, "DATA", "ESTOP", 0)
                 ELSE put_packetbytes(
                        put_packetbyte(
                          put_packetbyte(h1, p, h1.pos - 1, "DATA", "hex/str",
                                         B(p, h1.pos - 1)),
                          p, h1.pos, "DATA", "hex/str", b),
                        p, h1.pos - 1, h1.pos, "INFO", "Unknown", 0)
            ELSE put_packetbyte(
                   put_packetbyte(PutAccAddr(h1, p, h1.pos - 2, h1.pos - 1), p, h1.pos,
                                  "DATA", "Aspect:", b),
                   p, h1.pos, "COMMAND", "Switching time:, output:", And(b, 127)))

\* pd.py:1349-1396  the POM instruction of an accessory packet
AccessoryPOM(h, p) ==
    LET subcmd == And(B(p, h.pos), 31)
        kk     == And(Shr(subcmd, 2), 3)
    IN IF kk \in {1, 3, 2}
       THEN LET h1 == put_packetbyte(
                        put_packetbyte(h, p, h.pos, "DATA",
                          IF kk = 1 THEN "Read/Verify byte"
                          ELSE IF kk = 3 THEN "Write byte" ELSE "Bit manipulation", 0),
                        p, h.pos, "COMMAND", "Mode", 0)
            IN Then(ServiceCV(h1, p), LAMBDA h2 :
                 IF kk # 2 THEN DataCommand(h2, p, "Value")
                           ELSE BitManipulationPOM(h2, p))
       ELSE put_packetbyte(h, p, h.pos, "DATA", "Reserved for future use", 0)

\* pd.py:1195-1396  Accessory Decoder
AccessoryDecoder(h0, p) ==
    Then(incPos(h0, p), LAMBDA h1 :
      LET decaddr == AccDecaddr(p, h1.pos)
          h2 == [h1 EXCEPT !.acc_addr = decaddr + AddrOffset]
          h  == IF decaddr < 1
                THEN put_packetbytes(h2, p, h2.pos - 1, h2.pos, "ERROR",
                                     "Address < 1 not allowed", 0)
                ELSE h2
          b  == B(p, h.pos)
          r  == IF And(b, 136) = 8 THEN [h |-> AccessoryNOP(h, p), pom |-> FALSE]
                ELSE IF And(b, 128) = 128
                THEN IF Len(p) = 3 \/ Len(p) = 4
                     THEN [h |-> AccessoryBasic(h, p), pom |-> FALSE]
                     ELSE IF Len(p) = 6
                     THEN AccessoryPOMHeader(h, p, "POM for Basic Accessory Decoder",
                                             "POM Basic Accessory", "POM Basic Acc.")
                     ELSE [h |-> h, pom |-> FALSE]
                ELSE IF Len(p) = 4
                     THEN [h |-> AccessoryExtended(h, p), pom |-> FALSE]
                     ELSE IF Len(p) = 6
                     THEN AccessoryPOMHeader(h, p, "POM for Extended Accessory Decoder",
                                             "POM Extended Accessory", "POM Extended Acc.")
                     ELSE [h |-> h, pom |-> FALSE]
      IN IF r.pom THEN Then(r.h, LAMBDA h3 : AccessoryPOM(h3, p)) ELSE r.h)

(***************************************************************************)
(* CRC of RCN-218 packets (pd.py:187-223).                                 *)
(***************************************************************************)
\* the constants of bit 0 and bit 1 change places
crc_calc_Swapped(data) ==
    LET t == <<188, 94, 97, 194, 157, 35, 70, 140>>
        RECURSIVE acc(_, _)
        acc(k, r) == IF k > 8 THEN r
                     ELSE acc(k + 1, IF And(data, Pow2(k - 1)) # 0 THEN Xor(r, t[k]) ELSE r)
    IN acc(1, 0)

\* pd.py:187-197
crc_calc(data) ==
    LET t == <<94, 188, 97, 194, 157, 35, 70, 140>>
        RECURSIVE acc(_, _)
        acc(k, r) == IF k > 8 THEN r
                     ELSE acc(k + 1, IF And(data, Pow2(k - 1)) # 0 THEN Xor(r, t[k]) ELSE r)
    IN acc(1, 0)

\* pd.py:199-203  (the test on next has TLC compute the value of each pass
\* before the following one; it is never negative)
CRC(p) ==
    LET RECURSIVE run(_, _)
        run(i, crc_value) ==
            IF i >= Len(p) - 2 THEN crc_value
            ELSE LET next == crc_calc(Xor(B(p, i), crc_value))
                 IN IF next < 0 THEN next ELSE run(i + 1, next)
    IN run(0, 0)

\* a CRC mismatch ends the call
processCRC_StopOnError(h, p) ==
    IF h.pos + 1 >= Len(p) - 1
    THEN put_packetbytes(h, p, 0, Len(p) - 1, "ERROR", "CRC or Checksum missing", 0)
    ELSE Then(incPos(h, p), LAMBDA h1 :
           LET crcByte == B(p, h1.pos)
               h2 == put_packetbyte(
                       put_packetbyte(h1, p, h1.pos, "COMMAND", "CRC", 0),
                       p, h1.pos, "DATA", "hex", crcByte)
           IN IF crcByte = CRC(p)
              THEN put_packetbyte(h2, p, h2.pos, "FRAME", "CRC: OK", 0)
              ELSE [put_packetbytes(h2, p, 0, Len(p) - 2, "ERROR", "CRC false", 0)
                      EXCEPT !.ret = TRUE])

\* pd.py:205-223; the `return pos, True' of line 210 is h.ret
processCRC(h, p) ==
    IF h.pos + 1 >= Len(p) - 1
    THEN put_packetbytes(h, p, 0, Len(p) - 1, "ERROR", "CRC or Checksum missing", 0)
    ELSE Then(incPos(h, p), LAMBDA h1 :
           LET crcByte == B(p, h1.pos)
               h2 == put_packetbyte(
                       put_packetbyte(h1, p, h1.pos, "COMMAND", "CRC", 0),
                       p, h1.pos, "DATA", "hex", crcByte)
           IN IF crcByte = CRC(p)
              THEN put_packetbyte(h2, p, h2.pos, "FRAME", "CRC: OK", 0)
              ELSE put_packetbyte(
                     put_packetbytes(h2, p, 0, Len(p) - 2, "ERROR", "CRC false", 0),
                     p, h2.pos, "FRAME_OTHER", "CRC: ", CRC(p)))

(***************************************************************************)
(* handleDecodedBytes, first byte 232..255 (pd.py:1398-1625).              *)
(***************************************************************************)
\* pd.py:1410-1416, 1418-1422  k passes of the loop; withCommand: the loop of
\* the short packet, which also puts the COMMAND annotation
RECURSIVE AdvExtLoop(_, _, _, _)
AdvExtLoop(h, p, k, withCommand) ==
    IF k <= 0 THEN h
    ELSE Then(incPos(h, p), LAMBDA h1 :
           LET h2 == put_packetbyte(h1, p, h1.pos, "DATA", "?:hex/str", B(p, h1.pos))
           IN AdvExtLoop(
                IF withCommand
                THEN put_packetbytes(SetText(h2, 4, "S-9.1.1 in definition phase"), p, 1,
                                     h2.pos, "COMMAND", "S-9.1.1 in definition phase", 0)
                ELSE h2,
                p, k - 1, withCommand))

\* pd.py:1403-1426  Advanced Extended Packet
AdvancedExtended(h0, p) ==
    LET h == Command3(h0, p, "Advanced Extended Packet", "Adv. Ext. Packet", "Adv. Ext.")
    IN IF Len(p) <= 6
       THEN AdvExtLoop(h, p, (Len(p) - 1 - 1) - h.pos, TRUE)
       ELSE Then(AdvExtLoop(h, p, (Len(p) - 2 - 1) - h.pos, FALSE), LAMBDA h1 :
              Then(processCRC(h1, p), LAMBDA h2 :
                put_packetbytes(SetText(h2, 4, "S-9.1.1 in definition phase"), p, 1,
                                h2.pos - 1, "COMMAND", "S-9.1.1 in definition phase", 0)))

\* pd.py:1461-1472, 1544-1555  manufacturer ID and decoder ID.  In line 1463 and
\* 1546 `<<' binds tighter than `&': HHHH = (commandByte & (0b00001111 << 8)) + byte.
\* val of the decoder ID keeps its upper three bytes (the 32 bit number is only printed).
DccaIds(h0, p, commandByte) ==
    Then(incPos(h0, p), LAMBDA h1 :
      LET HHHH == And(commandByte, Shl(15, 8)) + B(p, h1.pos)
          h2 == putx(
                  putx(h1, p, BitPos(p, h1.pos - 1, 4), BitPos(p, h1.pos, 8), "COMMAND",
                       "12 bit manufacturer ID", 0),
                  p, BitPos(p, h1.pos - 1, 4), BitPos(p, h1.pos, 8), "DATA", "hex(HHHH)", HHHH)
      IN Then(incPos(h2, p), LAMBDA h3 :
         Then(incPos(h3, p), LAMBDA h4 :
         Then(incPos(h4, p), LAMBDA h5 :
         Then(incPos(h5, p), LAMBDA h6 :
           put_packetbytes(
             put_packetbytes(h6, p, h6.pos - 3, h6.pos, "DATA", "hex(UUUU)",
               (B(p, h6.pos - 3) * 256 + B(p, h6.pos - 2)) * 256 + B(p, h6.pos - 1)),
             p, h6.pos - 3, h6.pos, "COMMAND", "32 bit decoder ID", 0))))))

\* pd.py:1483-1515  Read Block; the result carries errorPacket
DccaReadBlock(h0, p) ==
    LET h  == put_packetbyte(SetText(h0, 5, "Read Block"), p, h0.pos, "DATA", "Read Block", 0)
        h1 == incPos(h, p)
    IN IF h1.ret THEN [h |-> h1, errorPacket |-> FALSE]
       ELSE LET h2 == put_packetbyte(
                        put_packetbyte(SetText(h1, 6, "Data space number"), p, h1.pos,
                                       "COMMAND", "Data space number", 0),
                        p, h1.pos, "DATA", "str", B(p, h1.pos))
            IN IF Len(p) = 15
               THEN [h |-> Then(incPos(h2, p), LAMBDA h3 :
                           Then(incPos(put_packetbyte(
                                  put_packetbyte(h3, p, h3.pos, "COMMAND", "CV31", 0),
                                  p, h3.pos, "DATA", "str", B(p, h3.pos)), p), LAMBDA h4 :
                           Then(incPos(put_packetbyte(
                                  put_packetbyte(h4, p, h4.pos, "COMMAND", "CV32", 0),
                                  p, h4.pos, "DATA", "str", B(p, h4.pos)), p), LAMBDA h5 :
                           Then(incPos(put_packetbyte(
                                  put_packetbyte(h5, p, h5.pos, "COMMAND", "CV address", 0),
                                  p, h5.pos, "DATA", "str", B(p, h5.pos)), p), LAMBDA h6 :
                             put_packetbyte(
                               put_packetbyte(h6, p, h6.pos, "COMMAND",
                                              "Number of CVs requested", 0),
                               p, h6.pos, "DATA", "str", B(p, h6.pos)))))),
                     errorPacket |-> FALSE]
               ELSE IF Len(p) # 11
               THEN [h |-> put_packetbytes(h2, p, 0, Len(p) - 1, "ERROR",
                                           "Unknown Paket, length: ", Len(p)),
                     errorPacket |-> TRUE]
               ELSE [h |-> h2, errorPacket |-> FALSE]

\* pd.py:1458-1540  commandByte 0b1101xxxx (annotated 'Reserved'; RCN-218 LOGON_SELECT)
DccaSelect(h0, p, commandByte) ==
    LET h == putx(SetText(h0, 2, "Reserved"), p, BitPos(p, h0.pos, 0), BitPos(p, h0.pos, 4),
                  "COMMAND", "Reserved", 0)
    IN Then(DccaIds(h, p, commandByte), LAMBDA h1 :
       Then(incPos(h1, p), LAMBDA h2 :
         LET h3   == put_packetbyte(SetText(h2, 4, "Subcommand"), p, h2.pos,
                                    "COMMAND", "Subcommand", 0)
             BBBB == B(p, h3.pos)
             D2(t5, t6) == [h |-> put_packetbyte(SetText(SetText(h3, 5, t5), 6, t6), p,
                                                 h3.pos, "DATA", t5, 0),
                            errorPacket |-> FALSE]
             r == IF BBBB = 255
                  THEN [h |-> put_packetbyte(SetText(h3, 5, "Read ShortInfo"), p, h3.pos,
                                             "DATA", "Read ShortInfo", 0),
                        errorPacket |-> FALSE]
                  ELSE IF BBBB = 254 THEN DccaReadBlock(h3, p)
                  ELSE IF BBBB = 253 THEN D2("Reserved (Read Background)", "Reserved")
                  ELSE IF BBBB = 252 THEN D2("Reserved (Write Block)", "Reserved")
                  ELSE IF BBBB = 251
                  THEN [h |-> Then(incPos(D2("Set decoder internal state", "Set state").h, p),
                                LAMBDA h4 :
                                  put_packetbyte(
                                    put_packetbyte(h4, p, h4.pos, "COMMAND", "State", 0),
                                    p, h4.pos, "DATA",
                                    IF B(p, h4.pos) = 255 THEN "delete changeflags"
                                                          ELSE "Reserved", 0)),
                        errorPacket |-> FALSE]
                  ELSE [h |-> put_packetbyte(h3, p, h3.pos, "DATA", "Reserved", 0),
                        errorPacket |-> FALSE]
         IN IF r.errorPacket THEN r.h
            ELSE Then(r.h, LAMBDA h5 : processCRC(h5, p))))

\* pd.py:1541-1570  LOGON_ASSIGN
DccaAssign(h0, p, commandByte) ==
    LET h == putx(SetText(h0, 2, "LOGON_ASSIGN"), p, BitPos(p, h0.pos, 0),
                  BitPos(p, h0.pos, 4), "COMMAND", "LOGON_ASSIGN", 0)
    IN Then(DccaIds(h, p, commandByte), LAMBDA h1 :
       Then(incPos(h1, p), LAMBDA h2 :
       Then(incPos(h2, p), LAMBDA h3 :
         LET top == Shr(And(B(p, h3.pos - 1), 192), 6)
             h4  == IF top = 3
                    THEN putx(
                           putx(
                             putx(h3, p, BitPos(p, h3.pos - 1, 0), BitPos(p, h3.pos - 1, 2),
                                  "COMMAND", "Reserved", 0),
                             p, BitPos(p, h3.pos - 1, 2), BitPos(p, h3.pos, 8),
                             "COMMAND", "decoder address", 0),
                           p, BitPos(p, h3.pos - 1, 2), BitPos(p, h3.pos, 8), "DATA", "hex",
                           Shl(And(B(p, h3.pos - 1), 63), 8) + B(p, h3.pos))
                    ELSE put_packetbytes(h3, p, h3.pos - 1, h3.pos, "INFO",
                                         "ignore command", 0)
             h5  == putx(h4, p, BitPos(p, h4.pos - 1, 0), BitPos(p, h4.pos - 1, 2),
                         "DATA", "{0:b}", top)
         IN processCRC(h5, p))))

\* pd.py:1577-1603  LOGON_ENABLE
DccaEnable(h0, p, commandByte) ==
    LET h  == put_packetbyte(SetText(h0, 4, "LOGON_ENABLE"), p, h0.pos,
                             "COMMAND", "LOGON_ENABLE", 0)
        GG == And(commandByte, 3)
        h1 == put_packetbyte(h, p, h.pos, "DATA",
                CASE GG = 0 -> "ALL: all decoders resond"
                  [] GG = 1 -> "LOCO: mobile decoders only"
                  [] GG = 2 -> "ACC: accessory decoders only"
                  [] GG = 3 -> "NOW: all decoders (regardless of backoff)", 0)
    IN Then(incPos(h1, p), LAMBDA h2 :
       Then(incPos(put_packetbyte(
                     put_packetbyte(h2, p, h2.pos, "COMMAND", "CID MSB", 0),
                     p, h2.pos, "DATA", "hex", B(p, h2.pos)), p), LAMBDA h3 :
       Then(incPos(put_packetbyte(
                     put_packetbyte(h3, p, h3.pos, "COMMAND", "CID LSB", 0),
                     p, h3.pos, "DATA", "hex", B(p, h3.pos)), p), LAMBDA h4 :
         put_packetbyte(
           put_packetbyte(h4, p, h4.pos, "COMMAND", "SessionID", 0),
           p, h4.pos, "DATA", "str", B(p, h4.pos)))))

\* pd.py:1428-1603  DCC-A
DCCA(h0, p) ==
    Then(incPos(Command1(h0, p, "DCC-A"), p), LAMBDA h :
      LET commandByte == B(p, h.pos)
          C2(t) == put_packetbyte(SetText(h, 2, t), p, h.pos, "COMMAND", t, 0)
          first == IF commandByte = 0 THEN C2("GET_DATA_START")
                   ELSE IF commandByte = 1 THEN C2("GET_DATA_CONT")
                   ELSE IF commandByte = 2
                   THEN put_packetbyte(C2("SET_DATA_START"), p, h.pos, "INFO",
                                       "currently not defined", 0)
                   ELSE IF commandByte = 3
                   THEN put_packetbyte(C2("SET_DATA_CONT"), p, h.pos, "INFO",
                                       "currently not defined", 0)
                   ELSE IF 4 <= commandByte /\ commandByte <= 15 THEN C2("Reserved")
                   ELSE IF 16 <= commandByte /\ commandByte <= 191 THEN C2("Reserved")
                   ELSE IF 192 <= commandByte /\ commandByte <= 207 THEN C2("Reserved")
                   ELSE IF 208 <= commandByte /\ commandByte <= 223
                   THEN DccaSelect(h, p, commandByte)
                   ELSE IF 224 <= commandByte /\ commandByte <= 239
                   THEN DccaAssign(h, p, commandByte)
                   ELSE h
      IN Then(first, LAMBDA h1 :
           IF commandByte = 240
           THEN put_packetbyte(SetText(h1, 4, "Reserved"), p, h1.pos, "COMMAND",
                               "Reserved", 0)
           ELSE IF 241 <= commandByte /\ commandByte <= 251
           THEN put_packetbyte(SetText(h1, 4, "Reserved"), p, h1.pos, "COMMAND",
                               "Reserved", 0)
           ELSE IF 252 <= commandByte /\ commandByte <= 255
           THEN DccaEnable(h1, p, commandByte)
           ELSE h1))

Idle_Always(h0, p) ==
    Then(incPos(h0, p), LAMBDA h :
      put_packetbytes(SetText(h, 1, "Idle"), p, h.pos - 1, h.pos, "COMMAND", "Idle", 0))

\* pd.py:1605-1625  Idle and system command
Idle(h0, p) ==
    Then(incPos(h0, p), LAMBDA h :
      IF B(p, h.pos) = 0
      THEN put_packetbytes(SetText(h, 1, "Idle"), p, h.pos - 1, h.pos, "COMMAND", "Idle", 0)
      ELSE LET h1 == put_packetbytes(
                       SetText([h EXCEPT !.validPacketFound = TRUE], 1, "RailComPlus"),
                       p, h.pos - 1, h.pos - 1, "COMMAND", "RailComPlus", 0)
               t4 == IF Len(p) >= 5 /\ B(p, h1.pos + 1) = 62 /\ B(p, h1.pos + 2) = 7
                        /\ B(p, h1.pos + 3) = 64
                     THEN "System command (not documented) (IDNotify?)"
                     ELSE "System command (not documented)"
               h2 == put_packetbytes(
                       SetText(SetText(h1, 4, t4), 5, "System command"),
                       p, h1.pos, Len(p) - 2, "COMMAND", t4, 0)
           IN [h2 EXCEPT !.pos = @ - 1])

NormalMode_IgnoreToggle(h0, p) ==
    IF B(p, 0) <= 127 \/ (192 <= B(p, 0) /\ B(p, 0) <= 231)
    THEN MultiFunctionDecoder([h0 EXCEPT !.pos = 0], p)
    ELSE h0

\* pd.py:503-1625  the packet is not a service mode packet
NormalMode(h0, p) ==
    LET idPacket == B(p, 0)
        h        == [h0 EXCEPT !.pos = 0]
    IN IF ~serviceMode \/ (serviceMode /\ ~(112 <= idPacket /\ idPacket <= 127))
       THEN IF (0 <= idPacket /\ idPacket <= 127) \/ (192 <= idPacket /\ idPacket <= 231)
            THEN MultiFunctionDecoder(h, p)
            ELSE IF 128 <= idPacket /\ idPacket <= 191 THEN AccessoryDecoder(h, p)
            ELSE IF 232 <= idPacket /\ idPacket <= 252 THEN Command1(h, p, "Reserved")
            ELSE IF idPacket = 253 THEN AdvancedExtended(h, p)
            ELSE IF idPacket = 254 THEN DCCA(h, p)
            ELSE IF idPacket = 255 THEN Idle(h, p)
            ELSE h
       ELSE h0

\* pd.py:1627-1638  remaining bytes in packet
RECURSIVE RemainingBytes(_, _, _)
RemainingBytes(h, p, x) ==
    IF x >= Len(p) - 1 THEN h
    ELSE LET idPacket == B(p, 0)
             h1 == put_packetbyte(h, p, x, "DATA", "?:hex/str", B(p, x))
             h2 == IF ~h1.validPacketFound
                   THEN put_packetbyte(
                          put_packetbyte(h1, p, x, "COMMAND", "?:hex/str", B(p, x)),
                          p, x, "INFO",
                          IF ~serviceMode /\ 112 <= idPacket /\ idPacket <= 127
                          THEN "Unknown (maybe service mode packet)"
                          ELSE IF serviceMode
                          THEN "Unknown (maybe operation mode packet)"
                          ELSE "Unknown", 0)
                   ELSE h1
         IN RemainingBytes(h2, p, x + 1)

RECURSIVE XorBytes_FromSecond(_, _)
XorBytes_FromSecond(p, n) ==
    IF n <= 1 THEN 0 ELSE Xor(XorBytes_FromSecond(p, n - 1), B(p, n - 1))

\* pd.py:1645-1647  XOR of all bytes but the last
RECURSIVE XorBytes(_, _)
XorBytes(p, n) == IF n = 0 THEN 0 ELSE Xor(XorBytes(p, n - 1), B(p, n - 1))

ChecksumPresent_OffByOne(h, p) == h.pos + 2 < Len(p)

\* pd.py:1643  a byte is left for the checksum
ChecksumPresent(h, p) == h.pos + 1 < Len(p)

Checksum_Discard(h, p) ==
    IF ChecksumPresent(h, p)
    THEN IF XorBytes(p, Len(p) - 1) = B(p, Len(p) - 1)
         THEN put_packetbyte(h, p, Len(p) - 1, "FRAME", "Checksum: OK", 0)
         ELSE put_packetbytes(Frame0, p, 0, Len(p) - 1, "ERROR", "Checksum", 0)
    ELSE put_packetbytes(h, p, 0, Len(p) - 1, "ERROR", "Checksum missing", 0)

\* pd.py:1641-1656  checksum
Checksum(h, p) ==
    IF ChecksumPresent(h, p)
    THEN LET checksum == XorBytes(p, Len(p) - 1)
         IN IF checksum = B(p, Len(p) - 1)
            THEN put_packetbyte(h, p, Len(p) - 1, "FRAME", "Checksum: OK", 0)
            ELSE put_packetbyte(
                   put_packetbytes(h, p, 0, Len(p) - 1, "ERROR", "Checksum", 0),
                   p, Len(p) - 1, "FRAME_OTHER", "Checksum: <>", checksum)
    ELSE put_packetbytes(h, p, 0, Len(p) - 1, "ERROR", "Checksum missing", 0)

(***************************************************************************)
(* handleDecodedBytes, search functions (pd.py:1659-1699).                 *)
(***************************************************************************)
\* str.lower() on one character
LowerChar(c) ==
    CASE c = "A" -> "a" [] c = "B" -> "b" [] c = "C" -> "c" [] c = "D" -> "d"
      [] c = "E" -> "e" [] c = "F" -> "f" [] c = "G" -> "g" [] c = "H" -> "h"
      [] c = "I" -> "i" [] c = "J" -> "j" [] c = "K" -> "k" [] c = "L" -> "l"
      [] c = "M" -> "m" [] c = "N" -> "n" [] c = "O" -> "o" [] c = "P" -> "p"
      [] c = "Q" -> "q" [] c = "R" -> "r" [] c = "S" -> "s" [] c = "T" -> "t"
      [] c = "U" -> "u" [] c = "V" -> "v" [] c = "W" -> "w" [] c = "X" -> "x"
      [] c = "Y" -> "y" [] c = "Z" -> "z" [] OTHER -> c

\* str.lower()
RECURSIVE Lower(_)
Lower(s) == IF s = "" THEN ""
            ELSE LowerChar(SubSeq(s, 1, 1)) \o Lower(SubSeq(s, 2, Len(s)))

\* Python's  sub in s  on strings
Contains(sub, s) ==
    \E i \in 1 .. (Len(s) - Len(sub) + 1) : SubSeq(s, i, i + Len(sub) - 1) = sub

ByteFound_NoChecksum(p) == \E x \in 0 .. Len(p) - 2 : byte_search = B(p, x)

\* pd.py:1662-1665  byte_found after the loop
ByteFound(p) == \E x \in 0 .. Len(p) - 1 : byte_search = B(p, x)

ByteReported_AndLinked(h) ==
    /\ dec_addr_search >= 0 => h.dec_addr = dec_addr_search
    /\ acc_addr_search >= 0 => h.acc_addr = acc_addr_search
    /\ cv_addr_search >= 0 => h.cv_addr = cv_addr_search

\* pd.py:1666-1670  the condition under which a matching byte is reported
ByteReported(h) ==
    \/ (dec_addr_search < 0 /\ acc_addr_search < 0 /\ cv_addr_search < 0)
    \/ h.dec_addr = dec_addr_search
    \/ h.acc_addr = acc_addr_search
    \/ h.cv_addr = cv_addr_search

RECURSIVE SearchByte_FirstOnly(_, _, _)
SearchByte_FirstOnly(h, p, x) ==
    IF x >= Len(p) THEN h
    ELSE IF byte_search = B(p, x) /\ ByteReported(h)
         THEN put_packetbyte(h, p, x, "SEARCH_BYTE", "BYTE:", byte_search)
         ELSE SearchByte_FirstOnly(h, p, x + 1)

\* pd.py:1663-1671  search for a byte
RECURSIVE SearchByte(_, _, _)
SearchByte(h, p, x) ==
    IF x >= Len(p) THEN h
    ELSE SearchByte(IF byte_search = B(p, x) /\ ByteReported(h)
                    THEN put_packetbyte(h, p, x, "SEARCH_BYTE", "BYTE:", byte_search)
                    ELSE h,
                    p, x + 1)

\* pd.py:1673-1689  search for decoder address, accessory address and CV
SearchAddr(h, p) ==
    LET ok == byte_search < 0 \/ ByteFound(p)
        h1 == IF dec_addr_search = h.dec_addr /\ ok
              THEN put_packetbytes(h, p, 0, Len(p) - 2, "SEARCH_DEC", "DECODER:",
                                   dec_addr_search)
              ELSE h
        h2 == IF acc_addr_search = h1.acc_addr /\ ok
              THEN put_packetbytes(h1, p, 0, Len(p) - 2, "SEARCH_ACC", "ACCESSORY:",
                                   acc_addr_search)
              ELSE h1
    IN IF cv_addr_search = h2.cv_addr /\ ok
       THEN put_packetbytes(h2, p, 0, Len(p) - 2, "SEARCH_CV", "CV:", cv_addr_search)
       ELSE h2

\* pd.py:1691-1699  search for a command text
SearchCommand(h, p) ==
    LET c == Lower(command_search)
    IN IF command_search # ""
          /\ (\/ Contains(c, Lower(h.commandText1)) \/ Contains(c, Lower(h.commandText2))
              \/ Contains(c, Lower(h.commandText3)) \/ Contains(c, Lower(h.commandText4))
              \/ Contains(c, Lower(h.commandText5)) \/ Contains(c, Lower(h.commandText6)))
       THEN put_packetbytes(h, p, 0, Len(p) - 2, "SEARCH_COMMAND", "COMMAND:", 0)
       ELSE h

\* pd.py:1659-1699
Search(h, p) == SearchCommand(SearchAddr(SearchByte(h, p, 0), p), p)

(***************************************************************************)
(* handleDecodedBytes (pd.py:394-1699): the frame at the end of the call.  *)
(***************************************************************************)
TooShort_TwoBytes(p) == Len(p) < 2

\* pd.py:400
TooShort(p) == Len(p) < 3

handleDecodedBytes(p) ==
    IF TooShort(p)
    THEN [put_packetbytes(Frame0, p, 0, Len(p) - 1, "ERROR", "Paket too short: ", Len(p))
            EXCEPT !.ret = TRUE]
    ELSE Then(ServiceMode(Frame0, p), LAMBDA h1 :
         Then(NormalMode(h1, p), LAMBDA h2 :
           Search(Checksum(RemainingBytes(h2, p, h2.pos + 1), p), p)))

(***************************************************************************)
(* Options as start() reads them (pd.py:306-344).  An option that int()    *)
(* cannot parse is <<>>, a parsed number v is <<v>>.                       *)
(***************************************************************************)
\* pd.py:312-344  try: int(option) except: -255, then the range check
SearchOption(o, lo, hi) ==
    LET v == IF o = <<>> THEN -255 ELSE o[1]
    IN IF v < lo \/ v > hi THEN -255 ELSE v

\* the search criteria after start() with no search option filled in
NoSearch ==
    /\ acc_addr_search = SearchOption(<<>>, 1, 2048)
    /\ dec_addr_search = SearchOption(<<>>, 0, 10239)
    /\ cv_addr_search = SearchOption(<<>>, 1, 16777216)
    /\ byte_search = SearchOption(<<>>, 0, 255)
    /\ command_search = ""

(***************************************************************************)
(* Timing classifier (pd.py:59-89, 1790-1952).  Times are kept in quarter  *)
(* microseconds: t microseconds are Micro(t).  At the sample rates drawn   *)
(* the sample period is a whole number of quarter microseconds, and the    *)
(* floating point sums, differences and comparisons of the classifiers are *)
(* exact on whole numbers of quarter microseconds.  decode computes a time *)
(* as n/samplerate*1000000, which in floating point is for some n one unit *)
(* in the last place off n sample periods (the smallest such n is 123);    *)
(* Span(n) is exactly n sample periods, and the signals drawn for the      *)
(* synchronizer have no span of such a length.                             *)
(***************************************************************************)
Micro(t) == 4 * t

\* pd.py:61-67  self.timing, rows timingINVALID .. timingRCNcomplianceS;
\* the row timingExperimental is expTiming
timing == << <<0, 0, 0, 0, 0, 0>>,
             <<52, 64, 6, 90, 10000, 10000>>,
             <<52, 64, 6, 90, 119, 10000>>,
             <<55, 61, 3, 95, 9900, 9900>>,
             <<55, 61, 3, 95, 116, 9900>>,
             <<56, 60, 3, 97, 114, 9898>> >>

BIT1MIN == 0

BIT1MAX == 1

BIT1TOLERANCE == 2

BIT0MIN == 3

BIT0MAX == 4

BIT0MAXSTRECHED == 5

RAILCOMCUTOUTMIN == 454

RAILCOMCUTOUTMAX == 488

BIT0MAXSTRECHEDTOTAL == 12000

maxInterferingPulseWidth == 4

timingINVALID == 0

timingNMRAdecoder == 1

timingRCNdecoder == 2

timingNMRAcompliance == 3

timingRCNcomplianceT == 4

timingRCNcomplianceS == 5

timingExperimental == 6

\* self.timing[TM][col], in quarter microseconds
TimingAt(TM, col) ==
    Micro((IF TM = timingExperimental THEN expTiming ELSE timing[TM + 1])[col + 1])

\* pd.py:1972  1/self.samplerate*1000000, in quarter microseconds
SamplePeriod(hz) == 4000000 \div hz

\* pd.py:2003, 2069, 2105  (edge_b - edge_a)/self.samplerate*1000000
Span(n) == n * SamplePeriod(samplerate.hz)

Abs(x) == IF x < 0 THEN -x ELSE x

Max(a, b) == IF a >= b THEN a ELSE b

\* the profile the "TE" flags are computed from: with timing compare off
\* they are copies of the "TM" flags
TE == IF timingCompare = "on" THEN timingExperimental ELSE timingModeNo

\* self.timing[TM][lo]-self.accuracy <= sample
AtLeast(TM, lo, sample) == TimingAt(TM, lo) - accuracy <= sample

\* sample <= self.timing[TM][hi]+self.accuracy
AtMost(TM, hi, sample) == sample <= TimingAt(TM, hi) + accuracy

Within_ActiveOnly(lo, hi, sample) ==
    /\ AtLeast(timingModeNo, lo, sample)
    /\ AtMost(timingModeNo, hi, sample)

\* (minTM or minTE) and (maxTM or maxTE)
Within(lo, hi, sample) ==
    /\ AtLeast(timingModeNo, lo, sample) \/ AtLeast(TE, lo, sample)
    /\ AtMost(timingModeNo, hi, sample) \/ AtMost(TE, hi, sample)

\* pd.py:1790-1809
isHalf1Bit(sample) == Within(BIT1MIN, BIT1MAX, sample)

\* pd.py:1819, 1825, 1926, 1928  max(self.timing[TM][BIT1TOLERANCE], 2*accuracy)
Tolerance_Min(TM) ==
    IF TimingAt(TM, BIT1TOLERANCE) <= 2 * accuracy
    THEN TimingAt(TM, BIT1TOLERANCE) ELSE 2 * accuracy

Tolerance(TM) == Max(TimingAt(TM, BIT1TOLERANCE), 2 * accuracy)

\* pd.py:1819, 1825  diffTM or diffTE
DiffWithin(part1, part2) ==
    \/ Abs(part1 - part2) <= Tolerance(timingModeNo)
    \/ Abs(part1 - part2) <= Tolerance(TE)

\* pd.py:1811-1851
is1Bit(part1, part2) ==
    /\ Within(BIT1MIN, BIT1MAX, part1)
    /\ Within(BIT1MIN, BIT1MAX, part2)
    /\ DiffWithin(part1, part2)

\* pd.py:1865-1868
withoutStrechedZero ==
    /\ timingModeNo \in {timingRCNdecoder, timingRCNcomplianceT,
                         timingRCNcomplianceS, timingExperimental}
    /\ rcnAllowStrechedZero = "no"

\* pd.py:1870-1875
withStrechedZero ==
    \/ /\ timingModeNo \in {timingRCNdecoder, timingRCNcomplianceT,
                            timingRCNcomplianceS, timingExperimental}
       /\ rcnAllowStrechedZero = "yes"
    \/ timingModeNo = timingNMRAdecoder
    \/ timingModeNo = timingNMRAcompliance

\* pd.py:1864  totalTM
TotalWithin_Unbounded(part1, part2) == TRUE

TotalWithin(part1, part2) ==
    part1 + part2 <= Micro(BIT0MAXSTRECHEDTOTAL) + 2 * accuracy

\* pd.py:1853-1921
is0Bit(part1, part2) ==
    \/ /\ withoutStrechedZero
       /\ Within(BIT0MIN, BIT0MAX, part1)
       /\ Within(BIT0MIN, BIT0MAX, part2)
    \/ /\ withStrechedZero
       /\ Within(BIT0MIN, BIT0MAXSTRECHED, part1)
       /\ Within(BIT0MIN, BIT0MAXSTRECHED, part2)
       /\ TotalWithin(part1, part2)

\* pd.py:1923-1931  `maxTM or maxTE' is maxTE when maxTM is 0
isStreched0Bit(part1, part2) ==
    LET maxTM == Tolerance(timingModeNo)
        maxTE == Tolerance(TE)
    IN Abs(part1 - part2) > (IF maxTM # 0 THEN maxTM ELSE maxTE)

isRailcomCutout_AnyMode(s, sample) ==
    /\ s.railcomCutoutPossible
    /\ Micro(RAILCOMCUTOUTMIN) - accuracy <= sample
    /\ sample <= Micro(RAILCOMCUTOUTMAX)
                   + 2 * (TimingAt(timingModeNo, BIT1MAX) + accuracy)

\* pd.py:1933-1943
isRailcomCutout(s, sample) ==
    /\ timingModeNo # timingNMRAcompliance
    /\ timingModeNo # timingRCNcomplianceT
    /\ timingModeNo # timingRCNcomplianceS
    /\ s.railcomCutoutPossible
    /\ Micro(RAILCOMCUTOUTMIN) - accuracy <= sample
    /\ sample <= Micro(RAILCOMCUTOUTMAX)
                   + 2 * (TimingAt(timingModeNo, BIT1MAX) + accuracy)

\* pd.py:1945-1952
isBroken1BitAfterRailcomCutout(s, total) ==
    /\ s.broken1bitPossible
    /\ total <= TimingAt(timingModeNo, BIT1MAX) + accuracy

(***************************************************************************)
(* The VARIANCE annotations the classifiers put when they answer True      *)
(* (timing compare on: a bound of the selected profile is missed, the      *)
(* bound of the experimental profile is met).  val is the time measured.   *)
(***************************************************************************)
\* minTM == False and minTE == True
OnlyTEmin(lo, sample) ==
    ~AtLeast(timingModeNo, lo, sample) /\ AtLeast(TE, lo, sample)

\* maxTM == False and maxTE == True
OnlyTEmax(hi, sample) ==
    ~AtMost(timingModeNo, hi, sample) /\ AtMost(TE, hi, sample)

\* pd.py:1800-1807, 1834-1849  `if ... to short elif ... to long'
HalfVariance(ss, es, lo, hi, which, sample) ==
    IF OnlyTEmin(lo, sample)
    THEN <<Annotation(ss, es, "VARIANCE1", which \o " to short", sample)>>
    ELSE IF OnlyTEmax(hi, sample)
    THEN <<Annotation(ss, es, "VARIANCE1", which \o " to long", sample)>>
    ELSE <<>>

\* pd.py:1800-1807
isHalf1BitVariance(s, sample) ==
    HalfVariance(s.edge_1, s.edge_2, BIT1MIN, BIT1MAX, "half 1 bit", sample)

\* pd.py:1830-1849
is1BitVariance(s, part1, part2) ==
    (IF /\ ~(Abs(part1 - part2) <= Tolerance(timingModeNo))
        /\ Abs(part1 - part2) <= Tolerance(TE)
     THEN <<Annotation(s.edge_1, s.edge_3, "VARIANCE2", "half bits difference",
                       Abs(part1 - part2))>>
     ELSE <<>>)
    \o HalfVariance(s.edge_1, s.edge_2, BIT1MIN, BIT1MAX, "1. half bit", part1)
    \o HalfVariance(s.edge_2, s.edge_3, BIT1MIN, BIT1MAX, "2. half bit", part2)

\* one `if' of pd.py:1894-1919
When(cond, ss, es, txt, sample) ==
    IF cond THEN <<Annotation(ss, es, "VARIANCE1", txt, sample)>> ELSE <<>>

\* pd.py:1894-1919
is0BitVariance(s, part1, part2) ==
    When(OnlyTEmin(BIT0MIN, part1), s.edge_1, s.edge_2, "1. half bit to short", part1)
    \o When(OnlyTEmin(BIT0MIN, part2), s.edge_2, s.edge_3, "2. half bit to short", part2)
    \o (IF ~withoutStrechedZero THEN <<>>
        ELSE IF OnlyTEmax(BIT0MAX, part1)
        THEN When(TRUE, s.edge_1, s.edge_2, "1. half bit to long", part1)
        ELSE When(OnlyTEmax(BIT0MAX, part2), s.edge_2, s.edge_3,
                  "2. half bit to long", part2))
    \o (IF ~withStrechedZero THEN <<>>
        ELSE When(OnlyTEmax(BIT0MAXSTRECHED, part1), s.edge_1, s.edge_2,
                  "1. half bit to long", part1)
             \o When(OnlyTEmax(BIT0MAXSTRECHED, part2), s.edge_2, s.edge_3,
                     "2. half bit to long", part2))

(***************************************************************************)
(* Packets handed to handleDecodedBytes.  processFoundByte appends         *)
(* [dccValue, dccBitPos] per byte, dccBitPos the 9 edge positions of the   *)
(* byte's bits; a bit is two half bits, a byte 8 bits and its start bit.   *)
(***************************************************************************)
MkPacket(vals) ==
    [i \in 1 .. Len(vals) |->
       <<vals[i], [k \in 1 .. 9 |-> 18 * (i - 1) + 2 * k]>>]

\* the byte values of a packet
Values(p) == [i \in 1 .. Len(p) |-> p[i][1]]

RECURSIVE XorSeq(_)
XorSeq(vals) == IF vals = <<>> THEN 0 ELSE Xor(Head(vals), XorSeq(Tail(vals)))

\* longest packet drawn
MaxLen == 5

\* first bytes: broadcast, 7 bit address, service mode range, accessory,
\* accessory broadcast, 14 bit address, reserved, 253, DCC-A, idle
AddrVals == {0, 3, 120, 129, 191, 192, 240, 253, 254, 255}

\* second bytes: one or more of each instruction group
CmdVals == {0, 28, 60, 61, 63, 96, 128, 134, 192, 193, 194, 236, 242}

\* further bytes
DataVals == {0, 1, 64, 224}

\* the byte values drawn for position i of n
ValsAt(i) == IF i = 1 THEN AddrVals ELSE IF i = 2 THEN CmdVals ELSE DataVals

\* byte sequences of length n, position i drawn from ValsAt(i)
RECURSIVE BodySeqs(_)
BodySeqs(n) ==
    IF n = 0 THEN {<<>>}
    ELSE {Append(f, v) : f \in BodySeqs(n - 1), v \in ValsAt(n)}

\* byte sequences of length n; the last byte is drawn like the others or is
\* the XOR of the bytes before it
ValueSeqs(n) ==
    BodySeqs(n) \cup {Append(f, XorSeq(f)) : f \in BodySeqs(n - 1)}

(***************************************************************************)
(* Frame synchronizer (pd.py:240-262, 1702-1787, 1955-2199).               *)
(* A step of decode works on the record r: r.self the decoder fields,      *)
(* r.out the annotations put in the step, r.eof the edge source ran out    *)
(* inside wait(), r.exc the exception raised, r.calls the byte values of   *)
(* the packets handed to handleDecodedBytes, r.resync a resynchronization  *)
(* error was reported, r.fall the pass goes on to classify the bit,        *)
(* r.stop the pass stands at the call of handleDecodedBytes.  None is      *)
(* written -1 for an edge.                                                 *)
(***************************************************************************)
\* pd.py:240-262  the fields reset() assigns (edges and samplenum start at 0)
SelfAfterReset ==
    [dccStart |-> 0, dccLast |-> 0, dccBitCounter |-> 0, dccBitPos |-> <<>>,
     dccValue |-> 0, decodedBytes |-> <<>>, dccStatus |-> "SYNCRONIZESIGNAL",
     half1Counter |-> 0, syncSignal |-> TRUE, lastPacketWasStop |-> FALSE,
     railcomCutoutPossible |-> FALSE, broken1bitPossible |-> FALSE,
     edge_0 |-> 0, edge_1 |-> 0, edge_2 |-> 0, edge_3 |-> -1, edge_4 |-> -1,
     samplenum |-> 0]

\* the record a step of decode starts from
StepOf(s) ==
    [self |-> s, out |-> <<>>, eof |-> FALSE, exc |-> "", calls |-> <<>>,
     resync |-> FALSE, fall |-> FALSE, stop |-> FALSE]

\* the rest of the step runs only while wait() returned and nothing was
\* raised; at the call of handleDecodedBytes it is taken up by PacketCall
After(r, F(_)) == IF r.eof \/ r.exc # "" \/ r.stop THEN r ELSE F(r)

\* the sample at which edge i of the signal is seen: its time in
\* microseconds times the sample rate
EdgeAt(i) == (signal[i] * (samplerate.hz \div 1000)) \div 1000

\* self.wait({0: 'e'}): samplenum moves to the next edge after it; the run
\* ends when there is none
wait(r) ==
    LET later == {i \in DOMAIN signal : EdgeAt(i) > r.self.samplenum}
    IN IF later = {} THEN [r EXCEPT !.eof = TRUE]
       ELSE [r EXCEPT !.self.samplenum =
                 EdgeAt(CHOOSE i \in later : \A j \in later : i <= j)]

\* self.wait({'skip': n}): samplenum moves n samples on; the run ends when
\* the samples end before (the last sample is the last edge)
waitSkip(r, n) ==
    IF signal = <<>> \/ r.self.samplenum + n > EdgeAt(Len(signal))
    THEN [r EXCEPT !.eof = TRUE]
    ELSE [r EXCEPT !.self.samplenum = @ + n]

\* self.putx(start, end, [cat, [txt ...]]) inside decode
Emit(r, start, end, cat, txt, val) ==
    [r EXCEPT !.out = Append(@, Annotation(start, end, cat, txt, val))]

\* the annotations a classifier put
EmitAll(r, anns) == [r EXCEPT !.out = @ \o anns]

\* pd.py:228-229
put_signal(r, cat, txt, val) ==
    Emit(r, r.self.edge_1, r.self.edge_3, cat, txt, val)

\* pd.py:1702-1711
setNextStatus_KeepBytes(s, newstatus) ==
    LET t == [s EXCEPT !.dccStatus = newstatus, !.dccBitCounter = 0,
                       !.half1Counter = 0]
    IN IF newstatus = "SYNCRONIZESIGNAL"
       THEN [t EXCEPT !.syncSignal = TRUE, !.railcomCutoutPossible = FALSE,
                      !.broken1bitPossible = FALSE, !.lastPacketWasStop = FALSE]
       ELSE t

setNextStatus(s, newstatus) ==
    LET t == [s EXCEPT !.dccStatus = newstatus, !.dccBitCounter = 0,
                       !.decodedBytes = <<>>, !.half1Counter = 0]
    IN IF newstatus = "SYNCRONIZESIGNAL"
       THEN [t EXCEPT !.syncSignal = TRUE, !.railcomCutoutPossible = FALSE,
                      !.broken1bitPossible = FALSE, !.lastPacketWasStop = FALSE]
       ELSE t

\* self.setNextStatus(newstatus) inside a step
SetStatus(r, newstatus) == [r EXCEPT !.self = setNextStatus(@, newstatus)]

\* the stop bit of the last packet counts in every timing mode
StopBitCounts_AnyMode(s) == s.lastPacketWasStop

\* pd.py:1738-1741  the stop bit of the last packet counts as a preamble bit
StopBitCounts(s) ==
    /\ s.lastPacketWasStop
    /\ timingModeNo # timingRCNcomplianceT
    /\ timingModeNo # timingRCNcomplianceS
    /\ timingModeNo # timingNMRAcompliance

\* pd.py:1717-1724  dccStatus 'PREAMBLEFOUND'
FoundPreambleFound(r, start, stop, data) ==
    IF data = 0
    THEN SetStatus(Emit(r, start, stop, "FRAME", "Start Packet", 0), "ADDRESSDATABYTE")
    ELSE SetStatus([put_signal(put_signal(r, "FRAME_OTHER",
                               "Resynchronize (Wait for preamble)", 0),
                           "ERROR", "unexpected 1-bit found", 0)
                  EXCEPT !.resync = TRUE],
               "SYNCRONIZESIGNAL")

\* pd.py:1727-1730  dccStatus 'WAITINGFORPREAMBLE'
FoundWaiting(r, start, stop, data) ==
    IF data = 1
    THEN [SetStatus(r, "PREAMBLE") EXCEPT !.self.dccStart = start]
    ELSE r

\* pd.py:1733-1762  dccStatus 'PREAMBLE'
FoundPreamble(r, start, stop, data) ==
    IF data = 1
    THEN [r EXCEPT !.self.dccBitCounter = @ + 1, !.self.dccLast = stop]
    ELSE
      LET counts == StopBitCounts(r.self)
          n == r.self.dccBitCounter + (IF counts THEN 1 ELSE 0)
          shown == IF counts THEN n ELSE n + 1
      IN IF n + 1 >= minCountPreambleBits
         THEN SetStatus(Emit(Emit(r, start, stop, "FRAME", "Start Packet", 0),
                         r.self.dccStart, r.self.dccLast, "FRAME",
                         IF counts THEN "Preamble: 1+" ELSE "Preamble: ", shown),
                    "ADDRESSDATABYTE")
         ELSE SetStatus([Emit(put_signal(r, "FRAME_OTHER",
                                     "Resynchronize (Wait for preamble)", 0),
                          r.self.dccStart, r.self.dccLast, "ERROR",
                          IF counts THEN "Invalid preamble (too few 1-bits (1+"
                                    ELSE "Invalid preamble (too few 1-bits (",
                          shown)
                       EXCEPT !.resync = TRUE],
                    "SYNCRONIZESIGNAL")

\* pd.py:1783-1784  the stop bit: the packet goes to handleDecodedBytes
FoundStop(r, start, stop) ==
    [Emit(r, start, stop, "FRAME", "Stop Packet", 0) EXCEPT !.stop = TRUE]

\* the bits of a byte are taken least significant first
FoundAddressData_LSBFirst(r, start, stop, data) ==
    LET s0 == [r.self EXCEPT !.lastPacketWasStop = FALSE]
        s1 == IF s0.dccBitCounter = 0
              THEN [s0 EXCEPT !.dccValue = 0, !.dccBitPos = <<>>] ELSE s0
    IN IF s1.dccBitCounter < 8
       THEN LET s2 == [s1 EXCEPT !.dccBitPos = Append(@, start),
                                 !.dccBitCounter = @ + 1,
                                 !.dccValue = @ + data * Pow2(s1.dccBitCounter)]
                s3 == IF s2.dccBitCounter = 8
                      THEN LET pos == Append(s2.dccBitPos, stop)
                           IN [s2 EXCEPT !.dccBitPos = pos,
                                         !.decodedBytes =
                                             Append(@, <<s2.dccValue, pos>>)]
                      ELSE s2
            IN [r EXCEPT !.self = s3]
       ELSE IF data = 0
       THEN Emit([r EXCEPT !.self = [s1 EXCEPT !.dccBitCounter = 0, !.dccValue = 0]],
                 start, stop, "FRAME", "Start Databyte", 0)
       ELSE FoundStop([r EXCEPT !.self = s1], start, stop)

\* pd.py:1765-1787  dccStatus 'ADDRESSDATABYTE'
FoundAddressData(r, start, stop, data) ==
    LET s0 == [r.self EXCEPT !.lastPacketWasStop = FALSE]
        s1 == IF s0.dccBitCounter = 0
              THEN [s0 EXCEPT !.dccValue = 0, !.dccBitPos = <<>>] ELSE s0
    IN IF s1.dccBitCounter < 8
       THEN LET s2 == [s1 EXCEPT !.dccBitPos = Append(@, start),
                                 !.dccBitCounter = @ + 1,
                                 !.dccValue = Shl(@, 1) + data]
                s3 == IF s2.dccBitCounter = 8
                      THEN LET pos == Append(s2.dccBitPos, stop)
                           IN [s2 EXCEPT !.dccBitPos = pos,
                                         !.decodedBytes =
                                             Append(@, <<s2.dccValue, pos>>)]
                      ELSE s2
            IN [r EXCEPT !.self = s3]
       ELSE IF data = 0
       THEN Emit([r EXCEPT !.self = [s1 EXCEPT !.dccBitCounter = 0, !.dccValue = 0]],
                 start, stop, "FRAME", "Start Databyte", 0)
       ELSE FoundStop([r EXCEPT !.self = s1], start, stop)

\* pd.py:1714-1787  data is the bit, 0 or 1
processFoundByte(r, start, stop, data) ==
    CASE r.self.dccStatus = "PREAMBLEFOUND" -> FoundPreambleFound(r, start, stop, data)
      [] r.self.dccStatus = "WAITINGFORPREAMBLE" -> FoundWaiting(r, start, stop, data)
      [] r.self.dccStatus = "PREAMBLE" -> FoundPreamble(r, start, stop, data)
      [] r.self.dccStatus = "ADDRESSDATABYTE" -> FoundAddressData(r, start, stop, data)
      [] OTHER -> r

(***************************************************************************)
(* decode (pd.py:1955-2199): the start of the call and one pass of its     *)
(* loop.                                                                   *)
(***************************************************************************)
\* wait for an edge and note it as edge_3, edge_4, edge_2
waitEdge3(r) == After(wait(r), LAMBDA w : [w EXCEPT !.self.edge_3 = w.self.samplenum])

waitEdge4(r) == After(wait(r), LAMBDA w : [w EXCEPT !.self.edge_4 = w.self.samplenum])

\* self.wait({0: 'e'}); self.edge_1 = self.edge_3; self.edge_2 = self.samplenum
waitAndShift(r) ==
    After(wait(r), LAMBDA w :
      [w EXCEPT !.self.edge_1 = w.self.edge_3, !.self.edge_2 = w.self.samplenum])

\* pd.py:2021-2040  the experimental profile is in use
ExpInUse == timingModeNo = timingExperimental \/ timingCompare = "on"

\* pd.py:2006-2040  output_1: each test that applies overwrites the text
ConfigError ==
    LET B1min == expTiming[1]
        B1max == expTiming[2]
        B1tolerance == expTiming[3]
        B0min == expTiming[4]
        B0max == expTiming[5]
        B0max_streched == expTiming[6]
        tests == <<
          <<samplerate.hz < 25000, "Samplerate must be >= 25kHz">>,
          <<timingModeNo = timingINVALID,
            "Samplerate too inaccurate for compliance testing: Please use at least 2Mhz">>,
          <<options.Search_acc_addr # <<>> /\ acc_addr_search = -255,
            "Search: accessory address invalid (use 1-2048)">>,
          <<options.Search_dec_addr # <<>> /\ dec_addr_search = -255,
            "Search: decoder address invalid (use 0-10239)">>,
          <<options.Search_cv # <<>> /\ cv_addr_search = -255,
            "Search: CV address invalid (use 1-16777216)">>,
          <<options.Search_byte # <<>> /\ byte_search = -255,
            "Search: invalid byte value (use 0-255 or 0b00000000-0b11111111 or 0x00-0xff)">>,
          <<timingModeNo \in {timingNMRAcompliance, timingRCNcomplianceT,
                              timingRCNcomplianceS} /\ preambleBitsCount < 10,
            "\"compliance mode: min. preamble bits\" must be greater than 9">>,
          <<ExpInUse /\ B1min < 0,
            "Exp: invalid value: \"1-bit half min.\" must be greater than 0">>,
          <<ExpInUse /\ B1max < 0,
            "Exp: invalid value: \"1-bit half max.\" must be greater than 0">>,
          <<ExpInUse /\ B1min > B1max,
            "Exp: invalid value: \"1-bit half min.\" is greater \"1-bit half max.\"">>,
          <<ExpInUse /\ B1tolerance < 0,
            "Exp: invalid value: \"1-bit tolerance\" must be greater than 0">>,
          <<ExpInUse /\ B0min < 0,
            "Exp: invalid value: \"0-bit half min.\" must be greater than 0">>,
          <<ExpInUse /\ B0max < 0,
            "Exp: invalid value: \"0-bit half max.\" must be greater than 0">>,
          <<ExpInUse /\ B0min > B0max,
            "Exp: invalid value: \"0-bit half min.\" is greater \"0-bit half max.\"">>,
          <<ExpInUse /\ B0max_streched < 0,
            "Exp: invalid value: \"0-bit streched\" must be greater than 0">>,
          <<ExpInUse /\ B0min > B0max_streched,
            "Exp: invalid value: \"0-bit half min.\" is greater \"0-bit streched\"">>,
          <<ExpInUse /\ B0max > B0max_streched,
            "Exp: invalid value: \"0-bit half max.\" is greater \"0-bit streched\"">> >>
        hits == {i \in DOMAIN tests : tests[i][1]}
    IN IF hits = {} THEN ""
       ELSE tests[CHOOSE i \in hits : \A j \in hits : j <= i][2]

ConfigErrorPass_Twice(r, output_1) ==
    After(waitSkip(r, 99), LAMBDA w :
      waitAndShift(put_signal(put_signal([w EXCEPT !.self.edge_3 = w.self.samplenum],
                                         "ERROR", output_1, 0),
                              "ERROR", output_1, 0)))

\* pd.py:2042-2049  the window of 99 samples is reported and skipped
ConfigErrorPass(r, output_1) ==
    After(waitSkip(r, 99), LAMBDA w :
      waitAndShift(put_signal([w EXCEPT !.self.edge_3 = w.self.samplenum],
                              "ERROR", output_1, 0)))

\* pd.py:2194-2199  the end of a pass that did not `continue'
EndPass(r) ==
    After(IF r.self.edge_4 = -1 THEN waitEdge4(r) ELSE r, LAMBDA w :
      [w EXCEPT !.self.edge_1 = w.self.edge_3, !.self.edge_2 = w.self.edge_4])

\* pd.py:2186-2191  value is '0' or '1'
FoundBit(r, value) ==
    IF r.self.dccStatus # "SYNCRONIZESIGNAL"
    THEN After(processFoundByte(put_signal(r, "BITS", ToString(value), value),
                                r.self.edge_1, r.self.edge_3, value),
               EndPass)
    ELSE EndPass(r)

\* pd.py:1785-1787, 2194-2199  handleDecodedBytes returned h: processFoundByte
\* and the pass are completed unless it raised
PacketReturn(r, h) ==
    After([r EXCEPT !.out = @ \o h.anns, !.exc = h.exc, !.stop = FALSE,
                    !.calls = Append(@, Values(r.self.decodedBytes))],
          LAMBDA r1 :
            EndPass(SetStatus([r1 EXCEPT !.self.railcomCutoutPossible = TRUE,
                                         !.self.lastPacketWasStop = TRUE],
                              "WAITINGFORPREAMBLE")))

\* pd.py:1784  handleDecodedBytes is called on the packet
PacketCall(r) ==
    IF r.stop THEN PacketReturn(r, handleDecodedBytes(r.self.decodedBytes)) ELSE r

\* pd.py:2119-2128, 2136-2145
RailcomCutout(r) ==
    LET r1 == put_signal([r EXCEPT !.self.railcomCutoutPossible = FALSE,
                                   !.self.broken1bitPossible = TRUE,
                                   !.self.lastPacketWasStop = FALSE],
                         "BITS", "Railcom cutout", 0)
    IN After(waitAndShift(r1), LAMBDA w : SetStatus(w, "WAITINGFORPREAMBLE"))

\* the broken 1 bit is ignored and another one may follow
Broken1Bit_Repeated(r) ==
    LET r1 == Emit(Emit(r, r.self.edge_1, r.self.edge_3, "FRAME_OTHER",
                        "broken 1-bit", 0),
                   r.self.edge_1, r.self.edge_3, "BITS_OTHER",
                   "ignored broken 1-bit after Railcom cutout", 0)
    IN After(waitAndShift(r1), LAMBDA w :
         [SetStatus(w, "WAITINGFORPREAMBLE") EXCEPT !.self.broken1bitPossible = TRUE])

\* pd.py:2148-2156
Broken1Bit(r) ==
    LET r1 == Emit(Emit([r EXCEPT !.self.broken1bitPossible = FALSE],
                        r.self.edge_1, r.self.edge_3, "FRAME_OTHER", "broken 1-bit", 0),
                   r.self.edge_1, r.self.edge_3, "BITS_OTHER",
                   "ignored broken 1-bit after Railcom cutout", 0)
    IN After(waitAndShift(r1), LAMBDA w : SetStatus(w, "WAITINGFORPREAMBLE"))

\* unknown timing is reported and the state is kept
UnknownTiming_KeepState(r, total) ==
    LET r1 == put_signal(r, "FRAME_OTHER", "Resynchronize (wait for preamble)", 0)
        r2 == put_signal(r1, "ERROR",
                         "unknown timing - should not occur - dirty signal?", 0)
        r3 == [r2 EXCEPT !.resync = TRUE]
        r4 == put_signal(r3, "BITS_OTHER", "unknown timing", total)
    IN EndPass(r4)

\* pd.py:2179-2188  unknown timing: resynchronize
UnknownTiming(r, total) ==
    LET r1 == put_signal(r, "FRAME_OTHER", "Resynchronize (wait for preamble)", 0)
        r2 == put_signal(r1, "ERROR",
                         "unknown timing - should not occur - dirty signal?", 0)
        r3 == SetStatus([r2 EXCEPT !.resync = TRUE], "SYNCRONIZESIGNAL")
        r4 == put_signal(r3, "BITS_OTHER", "unknown timing", total)
    IN EndPass(SetStatus(r4, "SYNCRONIZESIGNAL"))

\* the two short pulses are merged into edge_1
ShortPulse_MergeBack(r, total) ==
    After(waitEdge4(r), LAMBDA w :
      LET s == w.self
          short43 == Span(s.edge_4 - s.edge_3) <= Micro(maxInterferingPulseWidth)
          short32 == Span(s.edge_3 - s.edge_2) <= Micro(maxInterferingPulseWidth)
          mid == (s.edge_2 + s.edge_4) \div 2
      IN IF short43 /\ short32
         THEN Emit([w EXCEPT !.self.edge_2 = s.edge_1], mid, s.edge_4, "INFO",
                   "Short pulse ignored (1)", 0)
         ELSE IF short43
         THEN Emit(w, s.edge_3, s.edge_4, "INFO", "Short pulse ignored (2)", 0)
         ELSE IF short32
         THEN [Emit(w, s.edge_2, s.edge_3, "INFO", "Short pulse ignored (3)", 0)
                 EXCEPT !.self.edge_2 = s.edge_4]
         ELSE UnknownTiming(w, total))

\* pd.py:2161-2176  a pulse of at most maxInterferingPulseWidth is ignored
ShortPulse(r, total) ==
    After(waitEdge4(r), LAMBDA w :
      LET s == w.self
          short43 == Span(s.edge_4 - s.edge_3) <= Micro(maxInterferingPulseWidth)
          short32 == Span(s.edge_3 - s.edge_2) <= Micro(maxInterferingPulseWidth)
          mid == (s.edge_2 + s.edge_4) \div 2
      IN IF short43 /\ short32
         THEN Emit([w EXCEPT !.self.edge_2 = mid], mid, s.edge_4, "INFO",
                   "Short pulse ignored (1)", 0)
         ELSE IF short43
         THEN Emit(w, s.edge_3, s.edge_4, "INFO", "Short pulse ignored (2)", 0)
         ELSE IF short32
         THEN [Emit(w, s.edge_2, s.edge_3, "INFO", "Short pulse ignored (3)", 0)
                 EXCEPT !.self.edge_2 = s.edge_4]
         ELSE UnknownTiming(w, total))

\* a 1 bit and a 0 bit leave railcomCutoutPossible as it is
Classify_KeepEligible(r, part1, part2) ==
    LET total == part1 + part2
        s == r.self
        one == is1Bit(part1, part2)
        zero == ~one /\ is0Bit(part1, part2)
        cutout == ~one /\ isRailcomCutout(s, total)
        r1 == IF one THEN EmitAll(r, is1BitVariance(s, part1, part2))
              ELSE IF zero THEN EmitAll(r, is0BitVariance(s, part1, part2))
              ELSE r
        r2 == [r1 EXCEPT !.self.broken1bitPossible = FALSE]
    IN IF cutout THEN RailcomCutout(r1)
       ELSE IF one \/ zero
       THEN FoundBit(IF zero /\ isStreched0Bit(part1, part2)
                     THEN put_signal(r2, "INFO", "Streched 0-bit: ",
                                     Abs(part1 - part2))
                     ELSE r2,
                     IF one THEN 1 ELSE 0)
       ELSE IF isBroken1BitAfterRailcomCutout(s, total) THEN Broken1Bit(r)
       ELSE IF ignoreInterferingPulse = "yes" THEN ShortPulse(r, total)
       ELSE UnknownTiming(r, total)

\* pd.py:2109-2183  the two halves edge_1..edge_2..edge_3 are classified
Classify(r, part1, part2) ==
    LET total == part1 + part2
        s == r.self
        one == is1Bit(part1, part2)
        zero == ~one /\ is0Bit(part1, part2)
        cutout == ~one /\ isRailcomCutout(s, total)
        r1 == IF one THEN EmitAll(r, is1BitVariance(s, part1, part2))
              ELSE IF zero THEN EmitAll(r, is0BitVariance(s, part1, part2))
              ELSE r
        r2 == [r1 EXCEPT !.self.railcomCutoutPossible = FALSE,
                         !.self.broken1bitPossible = FALSE]
    IN IF cutout THEN RailcomCutout(r1)
       ELSE IF one \/ zero
       THEN FoundBit(IF zero /\ isStreched0Bit(part1, part2)
                     THEN put_signal(r2, "INFO", "Streched 0-bit: ",
                                     Abs(part1 - part2))
                     ELSE r2,
                     IF one THEN 1 ELSE 0)
       ELSE IF isBroken1BitAfterRailcomCutout(s, total) THEN Broken1Bit(r)
       ELSE IF ignoreInterferingPulse = "yes" THEN ShortPulse(r, total)
       ELSE UnknownTiming(r, total)

\* pd.py:2075  enough half 1 bits were counted before the 0 bit
PreambleReached_Half(s) == s.half1Counter >= minCountPreambleBits

PreambleReached(s) == s.half1Counter >= minCountPreambleBits * 2

\* pd.py:2055-2063  a half 1 bit is counted
SyncHalf1(r, part1) ==
    LET s == r.self
        r1 == EmitAll([r EXCEPT !.self.half1Counter = @ + 1],
                      isHalf1BitVariance(s, part1))
        r2 == Emit(r1, s.edge_1, s.edge_2, "BITS_OTHER", "half 1 bit", 0)
        r3 == Emit(r2, s.edge_1, s.edge_2, "FRAME_OTHER", "Synchronize (",
                   s.half1Counter + 1)
        r4 == [r3 EXCEPT !.self.edge_0 = s.edge_1, !.self.edge_1 = s.edge_2]
    IN After(wait(r4), LAMBDA w : [w EXCEPT !.self.edge_2 = w.self.samplenum])

\* the 0 bit after too few half 1 bits leaves the count as it is
SyncTooFew_KeepCount(r) ==
    LET s == r.self
        r1 == IF s.half1Counter = 0
              THEN Emit(Emit(r, s.edge_1, s.edge_2, "FRAME_OTHER",
                             "Synchronize (wait for half 1 bits)", 0),
                        s.edge_2, s.edge_3, "FRAME_OTHER",
                        "Synchronize (wait for half 1 bits)", 0)
              ELSE Emit(Emit(r, s.edge_1, s.edge_3, "BITS_OTHER", "0", 0),
                        s.edge_1, s.edge_3, "FRAME_OTHER",
                        "Synchronize (wait for preamble) (too few half 1 bits (",
                        s.half1Counter)
    IN waitAndShift(r1)

\* pd.py:2080-2091  a 0 bit after too few half 1 bits
SyncTooFew(r) ==
    LET s == r.self
        r1 == IF s.half1Counter = 0
              THEN Emit(Emit(r, s.edge_1, s.edge_2, "FRAME_OTHER",
                             "Synchronize (wait for half 1 bits)", 0),
                        s.edge_2, s.edge_3, "FRAME_OTHER",
                        "Synchronize (wait for half 1 bits)", 0)
              ELSE Emit(Emit(r, s.edge_1, s.edge_3, "BITS_OTHER", "0", 0),
                        s.edge_1, s.edge_3, "FRAME_OTHER",
                        "Synchronize (wait for preamble) (too few half 1 bits (",
                        s.half1Counter)
    IN waitAndShift([r1 EXCEPT !.self.half1Counter = 0])

\* pd.py:2094-2100  neither a half 1 bit nor a 0 bit
SyncInvalid(r, part1) ==
    LET s == r.self
        r1 == Emit(Emit(r, s.edge_1, s.edge_2, "BITS_OTHER", "us", part1),
                   s.edge_1, s.edge_2, "FRAME_OTHER",
                   "Synchronize (wait for half 1 bits)", 0)
    IN SetStatus([r1 EXCEPT !.self.edge_1 = s.edge_2, !.self.edge_2 = s.edge_3],
                 "SYNCRONIZESIGNAL")

\* the pass ends when the preamble is found
Synchronize_EndPass(r, part1) ==
    IF isHalf1Bit(part1) THEN SyncHalf1(r, part1)
    ELSE After(waitEdge3(r), LAMBDA w :
           LET part2 == Span(w.self.edge_3 - w.self.edge_2)
           IN IF is0Bit(part1, part2)
              THEN LET w1 == EmitAll(w, is0BitVariance(w.self, part1, part2))
                   IN IF PreambleReached(w1.self)
                      THEN SetStatus([w1 EXCEPT !.self.syncSignal = FALSE,
                                                !.self.half1Counter = 0],
                                     "PREAMBLEFOUND")
                      ELSE SyncTooFew(w1)
              ELSE SyncInvalid(w, part1))

\* pd.py:2053-2100  dccStatus 'SYNCRONIZESIGNAL'
Synchronize(r, part1) ==
    IF isHalf1Bit(part1) THEN SyncHalf1(r, part1)
    ELSE After(waitEdge3(r), LAMBDA w :
           LET part2 == Span(w.self.edge_3 - w.self.edge_2)
           IN IF is0Bit(part1, part2)
              THEN LET w1 == EmitAll(w, is0BitVariance(w.self, part1, part2))
                   IN IF PreambleReached(w1.self)
                      THEN SetStatus([w1 EXCEPT !.self.syncSignal = FALSE,
                                                !.self.half1Counter = 0,
                                                !.fall = TRUE],
                                     "PREAMBLEFOUND")
                      ELSE SyncTooFew(w1)
              ELSE SyncInvalid(w, part1))

\* pd.py:1998-2199  one pass of the loop: after the synchronization with a
\* preamble found, and in every other state with edge_3 read, the bit is
\* classified
Pass(r) ==
    LET r1 == [r EXCEPT !.self.edge_0 = r.self.edge_1, !.self.edge_3 = -1,
                        !.self.edge_4 = -1]
        part1 == Span(r1.self.edge_2 - r1.self.edge_1)
        r2 == IF ConfigError # "" THEN ConfigErrorPass(r1, ConfigError)
              ELSE IF r1.self.dccStatus = "SYNCRONIZESIGNAL"
              THEN Synchronize(r1, part1)
              ELSE After(waitEdge3(r1), LAMBDA w : [w EXCEPT !.fall = TRUE])
    IN PacketCall(IF r2.fall /\ ~r2.eof
                  THEN Classify(r2, part1, Span(r2.self.edge_3 - r2.self.edge_2))
                  ELSE r2)

\* pd.py:1962-1986  the start of decode once the sample rate is accepted;
\* the accuracy is 1/samplerate*1000000 as no option ExpAccurancy exists
\* (pd.py:153, 370-373)
DecodeStart(r) ==
    LET r1 == [r EXCEPT !.self.half1Counter = 0]
    IN After(wait(r1), LAMBDA w1 :
         After(wait([w1 EXCEPT !.self.edge_1 = w1.self.samplenum]), LAMBDA w2 :
           Emit([w2 EXCEPT !.self.edge_2 = w2.self.samplenum],
                0, w2.self.edge_1, "BITS_OTHER", "Samplerate: ",
                samplerate.hz)))

(***************************************************************************)
(* Specification of the Packet Decoder: a packet and a configuration are   *)
(* drawn, handleDecodedBytes runs on the packet.                           *)
(***************************************************************************)
vars == <<cfgVars, pktVars, timVars, clsVars, syncVars>>

\* the search options left empty
NoOptions ==
    [Search_acc_addr |-> <<>>, Search_dec_addr |-> <<>>, Search_cv |-> <<>>,
     Search_byte |-> <<>>]

\* pd.py:61-67, 79, 240-262  the timing fields after construction;
\* samplerate is not assigned, preambleBitsCount (0 here) neither
TimingAfterReset ==
    /\ samplerate = [kind |-> "unset", hz |-> 0]
    /\ timingModeNo = timingINVALID
    /\ rcnAllowStrechedZero = "no"
    /\ timingCompare = "off"
    /\ ignoreInterferingPulse = "no"
    /\ preambleBitsCount = 0
    /\ minCountPreambleBits = 10
    /\ expTiming = <<0, 0, 0, 0, 0, 0>>
    /\ accuracy = 0

\* no half periods under classification
NoVerdict == [done |-> FALSE, half1 |-> FALSE, one |-> FALSE, zero |-> FALSE,
              streched |-> FALSE]

ClassifierIdle == halves = <<0, 0>> /\ verdict = NoVerdict

\* pd.py:240-262  the synchronizer after construction, no signal attached
SyncAfterReset ==
    /\ self = SelfAfterReset
    /\ out = <<>>
    /\ raised = ""
    /\ handled = <<>>
    /\ errPos = -1
    /\ phase = "new"

\* what a specification of handleDecodedBytes alone leaves untouched
DecoderIdle ==
    /\ options = NoOptions
    /\ TimingAfterReset
    /\ ClassifierIdle
    /\ SyncAfterReset
    /\ signal = <<>>

InitPacket ==
    /\ serviceMode \in BOOLEAN
    /\ speed14 \in BOOLEAN
    /\ AddrOffset = 0
    /\ NoSearch
    /\ \E n \in 1 .. MaxLen : \E f \in ValueSeqs(n) : packetByte = MkPacket(f)
    /\ flipped = <<>>
    /\ result = Frame0
    /\ pc = "ready"
    /\ DecoderIdle

\* processFoundByte calls self.handleDecodedBytes(self.decodedBytes) (pd.py:1787)
HandlePacket ==
    /\ pc = "ready"
    /\ result' = handleDecodedBytes(packetByte)
    /\ pc' = "done"
    /\ UNCHANGED <<cfgVars, packetByte, flipped, timVars, clsVars, syncVars>>

NextPacket == HandlePacket

SpecPacket == InitPacket /\ [][NextPacket]_vars

(***************************************************************************)
(* Specification of a corrupted packet: a packet with a correct XOR        *)
(* checksum is drawn, one bit of a byte before the last is inverted, then  *)
(* handleDecodedBytes runs on it.                                          *)
(***************************************************************************)
\* longest packet drawn for corruption
MaxFlipLen == 4

\* the packet has n >= 3 bytes and its last byte is the XOR of the bytes before
ValidXor(vals) ==
    /\ Len(vals) >= 3
    /\ vals[Len(vals)] = XorSeq(SubSeq(vals, 1, Len(vals) - 1))

InitFlip ==
    /\ serviceMode \in BOOLEAN
    /\ speed14 = FALSE
    /\ AddrOffset = 0
    /\ NoSearch
    /\ \E n \in 3 .. MaxFlipLen : \E f \in BodySeqs(n - 1) :
          packetByte = MkPacket(Append(f, XorSeq(f)))
    /\ flipped = <<>>
    /\ result = Frame0
    /\ pc = "ready"
    /\ DecoderIdle

\* bit k of byte i (not the last byte) arrives inverted
FlipBit ==
    /\ pc = "ready"
    /\ flipped = <<>>
    /\ \E i \in 0 .. Len(packetByte) - 2 : \E k \in 0 .. 7 :
          /\ packetByte' = [packetByte EXCEPT ![i + 1][1] = Xor(@, Pow2(k))]
          /\ flipped' = <<i, k>>
    /\ UNCHANGED <<cfgVars, result, pc, timVars, clsVars, syncVars>>

NextFlip == FlipBit \/ HandlePacket

SpecFlip == InitFlip /\ [][NextFlip]_vars

(***************************************************************************)
(* Specification of the search functions: search options and a packet are  *)
(* drawn, handleDecodedBytes runs on the packet.                           *)
(***************************************************************************)
\* longest packet drawn for the search
MaxSearchLen == 4

\* the values filled into the options Search_byte, Search_dec_addr,
\* Search_acc_addr and Search_cv (<<>>: left empty)
SearchByteOpts == {<<>>, <<0>>, <<3>>}

SearchDecOpts == {<<>>, <<3>>}

SearchAccOpts == {<<>>, <<1793>>}

SearchCvOpts == {<<>>, <<1>>}

InitSearch ==
    /\ serviceMode \in BOOLEAN
    /\ speed14 = FALSE
    /\ AddrOffset = 0
    /\ \E ob \in SearchByteOpts, od \in SearchDecOpts, oa \in SearchAccOpts,
          oc \in SearchCvOpts :
          /\ options = [Search_acc_addr |-> oa, Search_dec_addr |-> od,
                        Search_cv |-> oc, Search_byte |-> ob]
          /\ byte_search = SearchOption(ob, 0, 255)
          /\ dec_addr_search = SearchOption(od, 0, 10239)
          /\ acc_addr_search = SearchOption(oa, 1, 2048)
          /\ cv_addr_search = SearchOption(oc, 1, 16777216)
    /\ command_search = ""
    /\ \E n \in 1 .. MaxSearchLen : \E f \in ValueSeqs(n) : packetByte = MkPacket(f)
    /\ flipped = <<>>
    /\ result = Frame0
    /\ pc = "ready"
    /\ TimingAfterReset
    /\ ClassifierIdle
    /\ SyncAfterReset
    /\ signal = <<>>

SpecSearch == InitSearch /\ [][NextPacket]_vars

(***************************************************************************)
(* Specification of the byte search alone: Search_byte is filled in with   *)
(* 0xFF, the other search options are left empty; a packet in which 0xFF   *)
(* can stand at every position is drawn and handleDecodedBytes runs on it. *)
(***************************************************************************)
\* longest packet drawn for the byte search
MaxByteSearchLen == 4

\* byte sequences of length n, position i drawn from ValsAt(i) and 0xFF
RECURSIVE ByteSearchSeqs(_)
ByteSearchSeqs(n) ==
    IF n = 0 THEN {<<>>}
    ELSE {Append(f, v) : f \in ByteSearchSeqs(n - 1), v \in ValsAt(n) \cup {255}}

InitByteSearch ==
    /\ serviceMode \in BOOLEAN
    /\ speed14 = FALSE
    /\ AddrOffset = 0
    /\ options = [NoOptions EXCEPT !.Search_byte = <<255>>]
    /\ byte_search = SearchOption(<<255>>, 0, 255)
    /\ dec_addr_search = SearchOption(<<>>, 0, 10239)
    /\ acc_addr_search = SearchOption(<<>>, 1, 2048)
    /\ cv_addr_search = SearchOption(<<>>, 1, 16777216)
    /\ command_search = ""
    /\ \E n \in 1 .. MaxByteSearchLen : \E f \in ByteSearchSeqs(n) :
          packetByte = MkPacket(f)
    /\ flipped = <<>>
    /\ result = Frame0
    /\ pc = "ready"
    /\ TimingAfterReset
    /\ ClassifierIdle
    /\ SyncAfterReset
    /\ signal = <<>>

SpecByteSearch == InitByteSearch /\ [][NextPacket]_vars

(***************************************************************************)
(* Specification of the dispatch of first bytes 112..127: the option       *)
(* Mode_112_127 is drawn, a packet with such a first byte is drawn and     *)
(* handleDecodedBytes runs on it.                                          *)
(***************************************************************************)
\* longest packet drawn with a first byte 112..127
MaxServiceLen == 5

\* byte sequences of length n, the first byte 112..127, position i > 1 drawn
\* from ValsAt(i)
RECURSIVE ServiceSeqs(_)
ServiceSeqs(n) ==
    IF n = 0 THEN {<<>>}
    ELSE {Append(f, v) : f \in ServiceSeqs(n - 1),
                         v \in IF n = 1 THEN 112 .. 127 ELSE ValsAt(n)}

InitService ==
    /\ serviceMode \in BOOLEAN
    /\ speed14 \in BOOLEAN
    /\ AddrOffset = 0
    /\ NoSearch
    /\ \E n \in 1 .. MaxServiceLen :
          \/ \E f \in ServiceSeqs(n) : packetByte = MkPacket(f)
          \/ \E f \in ServiceSeqs(n - 1) :
                f # <<>> /\ packetByte = MkPacket(Append(f, XorSeq(f)))
    /\ flipped = <<>>
    /\ result = Frame0
    /\ pc = "ready"
    /\ DecoderIdle

SpecService == InitService /\ [][NextPacket]_vars

(***************************************************************************)
(* Specification of a packet received twice, the second time with another  *)
(* last byte: handleDecodedBytes runs on a packet of 3 or more bytes, one  *)
(* bit of the last byte is inverted, and handleDecodedBytes runs on the    *)
(* packet again; result holds the frame of the first call until the second *)
(* returns.                                                                *)
(***************************************************************************)
\* longest packet drawn from ValueSeqs for the change of the last byte
MaxChecksumLen == 4

\* the RailComPlus system command whose label looks 3 bytes ahead
\* (pd.py:1617), in a packet of 5 bytes
IDNotifyPacket == <<255, 1, 62, 7, 64>>

InitChecksum ==
    /\ serviceMode \in BOOLEAN
    /\ speed14 = FALSE
    /\ AddrOffset = 0
    /\ NoSearch
    /\ \/ \E n \in 3 .. MaxChecksumLen : \E f \in ValueSeqs(n) :
             packetByte = MkPacket(f)
       \/ packetByte = MkPacket(IDNotifyPacket)
    /\ flipped = <<>>
    /\ result = Frame0
    /\ pc = "ready"
    /\ DecoderIdle

\* the packet comes again with bit k of its last byte inverted
ChangeChecksum ==
    /\ pc = "done"
    /\ flipped = <<>>
    /\ \E k \in 0 .. 7 :
          /\ packetByte' = [packetByte EXCEPT ![Len(packetByte)][1] = Xor(@, Pow2(k))]
          /\ flipped' = <<Len(packetByte) - 1, k>>
    /\ pc' = "ready"
    /\ UNCHANGED <<cfgVars, result, timVars, clsVars, syncVars>>

NextChecksum == ChangeChecksum \/ HandlePacket

SpecChecksum == InitChecksum /\ [][NextChecksum]_vars

(***************************************************************************)
(* Specification of the basic speed and direction instruction: a packet    *)
(* to the broadcast address 0 or to the decoder address 3 whose second     *)
(* byte is any byte 01DCSSSS is drawn and handleDecodedBytes runs on it.   *)
(***************************************************************************)
\* longest packet drawn with a speed instruction
MaxSpeedLen == 4

\* byte sequences of length n: address 0 or 3, a second byte 64..127, then
\* bytes drawn from DataVals and 0x7E
RECURSIVE SpeedSeqs(_)
SpeedSeqs(n) ==
    IF n = 0 THEN {<<>>}
    ELSE {Append(f, v) : f \in SpeedSeqs(n - 1),
                         v \in IF n = 1 THEN {0, 3}
                               ELSE IF n = 2 THEN 64 .. 127
                               ELSE DataVals \cup {126}}

InitSpeed ==
    /\ serviceMode \in BOOLEAN
    /\ speed14 \in BOOLEAN
    /\ AddrOffset = 0
    /\ NoSearch
    /\ \E n \in 1 .. MaxSpeedLen :
          \/ \E f \in SpeedSeqs(n) : packetByte = MkPacket(f)
          \/ \E f \in SpeedSeqs(n - 1) :
                f # <<>> /\ packetByte = MkPacket(Append(f, XorSeq(f)))
    /\ flipped = <<>>
    /\ result = Frame0
    /\ pc = "ready"
    /\ DecoderIdle

SpecSpeed == InitSpeed /\ [][NextPacket]_vars

(***************************************************************************)
(* Specification of the accessory decoder packets: a packet whose first    *)
(* byte is 10AAAAAA and whose second byte is any byte is drawn, with an    *)
(* address offset of 0 or 4, and handleDecodedBytes runs on it.            *)
(***************************************************************************)
\* longest packet drawn for an accessory decoder
MaxAccessoryLen == 4

\* the address offsets drawn for the option Addr_offset
AddrOffsets == {0, 4}

\* byte sequences of length n: a first byte 10AAAAAA, any second byte, then
\* bytes drawn from DataVals
RECURSIVE AccessorySeqs(_)
AccessorySeqs(n) ==
    IF n = 0 THEN {<<>>}
    ELSE {Append(f, v) : f \in AccessorySeqs(n - 1),
                         v \in IF n = 1 THEN {128, 129, 191}
                               ELSE IF n = 2 THEN 0 .. 255
                               ELSE DataVals}

InitAccessory ==
    /\ serviceMode = FALSE
    /\ speed14 = FALSE
    /\ AddrOffset \in AddrOffsets
    /\ NoSearch
    /\ \E n \in 1 .. MaxAccessoryLen :
          \/ \E f \in AccessorySeqs(n) : packetByte = MkPacket(f)
          \/ \E f \in AccessorySeqs(n - 1) :
                f # <<>> /\ packetByte = MkPacket(Append(f, XorSeq(f)))
    /\ flipped = <<>>
    /\ result = Frame0
    /\ pc = "ready"
    /\ DecoderIdle

SpecAccessory == InitAccessory /\ [][NextPacket]_vars

(***************************************************************************)
(* Specification of the address offsets: the accessory decoder packets of  *)
(* SpecAccessory with an address offset of 1 or below zero, no search      *)
(* option filled in.                                                       *)
(***************************************************************************)
\* the address offsets drawn: 1, and two that bring an address to -255
OtherOffsets == {1, -252, -256}

InitOffset ==
    /\ serviceMode = FALSE
    /\ speed14 = FALSE
    /\ AddrOffset \in OtherOffsets
    /\ NoSearch
    /\ \E n \in 1 .. MaxAccessoryLen :
          \/ \E f \in AccessorySeqs(n) : packetByte = MkPacket(f)
          \/ \E f \in AccessorySeqs(n - 1) :
                f # <<>> /\ packetByte = MkPacket(Append(f, XorSeq(f)))
    /\ flipped = <<>>
    /\ result = Frame0
    /\ pc = "ready"
    /\ DecoderIdle

SpecOffset == InitOffset /\ [][NextPacket]_vars

(***************************************************************************)
(* Specification of the extracted numbers: packets with the highest and    *)
(* the lowest decoder addresses and CV numbers, in service mode and in     *)
(* operation mode.                                                         *)
(***************************************************************************)
\* longest packet drawn for the extraction
MaxExtractLen == 7

\* first bytes: 7 bit addresses (127 is a service mode write as well), the
\* accessory decoder 10111111, the lowest and the highest 14 bit address
\* byte; further bytes: 0, the CV access 0b11101111 and 255
ExtractValsAt(i) == IF i = 1 THEN {3, 127, 191, 192, 231} ELSE {0, 239, 255}

RECURSIVE ExtractSeqs(_)
ExtractSeqs(n) ==
    IF n = 0 THEN {<<>>}
    ELSE {Append(f, v) : f \in ExtractSeqs(n - 1), v \in ExtractValsAt(n)}

InitExtract ==
    /\ serviceMode \in BOOLEAN
    /\ speed14 = FALSE
    /\ AddrOffset = 0
    /\ NoSearch
    /\ \E n \in 1 .. MaxExtractLen :
          \/ \E f \in ExtractSeqs(n) : packetByte = MkPacket(f)
          \/ \E f \in ExtractSeqs(n - 1) :
                f # <<>> /\ packetByte = MkPacket(Append(f, XorSeq(f)))
    /\ flipped = <<>>
    /\ result = Frame0
    /\ pc = "ready"
    /\ DecoderIdle

SpecExtract == InitExtract /\ [][NextPacket]_vars

(***************************************************************************)
(* Specification of the DCC-A packets (first byte 254): a command byte and *)
(* the bytes after it are drawn, then the CRC and the checksum, each       *)
(* correct or not, and handleDecodedBytes runs on the packet.              *)
(***************************************************************************)
\* longest run of bytes drawn before the CRC
MaxDccaLen == 9

\* command bytes: GET_DATA, SET_DATA, the reserved ranges, 0b1101xxxx,
\* LOGON_ASSIGN and LOGON_ENABLE
DccaCommands == {0, 2, 100, 200, 208, 211, 224, 229, 240, 252, 254}

\* the bytes drawn for position i: the low byte of the manufacturer ID, the
\* decoder ID, the subcommand or the high byte of the address, what follows
DccaValsAt(i) ==
    IF i = 1 THEN {254}
    ELSE IF i = 2 THEN DccaCommands
    ELSE IF i = 3 THEN {0, 200}
    ELSE IF i \in 4 .. 6 THEN {17}
    ELSE IF i = 7 THEN {17, 255}
    ELSE IF i = 8 THEN {255, 254, 251, 192, 3}
    ELSE {0, 255}

RECURSIVE DccaSeqs(_)
DccaSeqs(n) ==
    IF n = 0 THEN {<<>>}
    ELSE {Append(f, v) : f \in DccaSeqs(n - 1), v \in DccaValsAt(n)}

\* Read Block packets of 11 and of 15 bytes, without their last two bytes
ReadBlocks ==
    {<<254, c, 200, 17, 17, 17, 17, 254, 3>> \o t :
       c \in {208, 211}, t \in {<<>>, <<1, 2, 3, 4>>}}

\* the CRC of the bytes f, as CRC computes it on a packet that has two
\* bytes more
CrcOf(f) == CRC(MkPacket(f \o <<0, 0>>))

\* the bytes f with a CRC and a checksum: both correct, the CRC wrong, the
\* checksum wrong, a byte between the CRC and the checksum, and f alone
DccaTails(f) ==
    {f,
     f \o <<CrcOf(f), XorSeq(Append(f, CrcOf(f)))>>,
     f \o <<Xor(CrcOf(f), 1), XorSeq(Append(f, Xor(CrcOf(f), 1)))>>,
     f \o <<CrcOf(f), Xor(XorSeq(Append(f, CrcOf(f))), 128)>>,
     f \o <<CrcOf(f), 0, XorSeq(Append(f, CrcOf(f)))>>}

InitDcca ==
    /\ serviceMode = FALSE
    /\ speed14 = FALSE
    /\ AddrOffset = 0
    /\ NoSearch
    /\ \E f \in UNION {DccaSeqs(n) : n \in 2 .. MaxDccaLen} \cup ReadBlocks :
          \E g \in DccaTails(f) : packetByte = MkPacket(g)
    /\ flipped = <<>>
    /\ result = Frame0
    /\ pc = "ready"
    /\ DecoderIdle

SpecDcca == InitDcca /\ [][NextPacket]_vars

(***************************************************************************)
(* Specification of the CRC: a packet of two bytes and two more, which CRC *)
(* leaves out, is drawn; crc_calc runs on the two bytes and on their XOR,  *)
(* CRC on the packet.                                                      *)
(***************************************************************************)
\* the last two bytes drawn
CrcTails == {<<0, 0>>, <<255, 1>>}

InitCrc ==
    /\ serviceMode = FALSE
    /\ speed14 = FALSE
    /\ AddrOffset = 0
    /\ NoSearch
    /\ \E a \in 0 .. 255, b \in 0 .. 255, t \in CrcTails :
          packetByte = MkPacket(<<a, b>> \o t)
    /\ flipped = <<>>
    /\ result = Frame0
    /\ pc = "idle"
    /\ options = NoOptions
    /\ TimingAfterReset
    /\ halves = <<0, 0>>
    /\ verdict = [done |-> FALSE, first |-> 0, second |-> 0, both |-> 0, crc |-> 0]
    /\ SyncAfterReset
    /\ signal = <<>>

\* crc_calc and CRC are called as CRC and processCRC call them (pd.py:202,
\* 215)
ComputeCRC ==
    /\ ~verdict.done
    /\ verdict' = [done |-> TRUE,
                   first |-> crc_calc(B(packetByte, 0)),
                   second |-> crc_calc(B(packetByte, 1)),
                   both |-> crc_calc(Xor(B(packetByte, 0), B(packetByte, 1))),
                   crc |-> CRC(packetByte)]
    /\ UNCHANGED <<cfgVars, pktVars, timVars, halves, syncVars>>

NextCrc == ComputeCRC

SpecCrc == InitCrc /\ [][NextCrc]_vars

(***************************************************************************)
(* start() (pd.py:264-380), the part that selects the timing.              *)
(***************************************************************************)
TimingModes == {"NMRA decoding", "RCN decoding", "NMRA compliance testing",
                "RCN compliance testing track", "RCN compliance testing station",
                "Experimental"}

ComplianceModes == {"NMRA compliance testing", "RCN compliance testing track",
                    "RCN compliance testing station"}

\* pd.py:278-303  self.timingModeNo; a compliance mode below 2 MHz is invalid
ModeNo(timingMode, hz) ==
    CASE timingMode = "NMRA decoding" -> timingNMRAdecoder
      [] timingMode = "RCN decoding" -> timingRCNdecoder
      [] timingMode = "NMRA compliance testing" ->
           IF hz < 2000000 THEN timingINVALID ELSE timingNMRAcompliance
      [] timingMode = "RCN compliance testing track" ->
           IF hz < 2000000 THEN timingINVALID ELSE timingRCNcomplianceT
      [] timingMode = "RCN compliance testing station" ->
           IF hz < 2000000 THEN timingINVALID ELSE timingRCNcomplianceS
      [] timingMode = "Experimental" -> timingExperimental

\* pd.py:278-303  self.minCountPreambleBits
MinCount(timingMode, count) ==
    IF timingMode \in ComplianceModes THEN count ELSE 10

\* pd.py:146-151  the defaults of the options B1min .. B0max_streched
ExpDefaults == <<52, 64, 6, 90, 119, 10000>>

(***************************************************************************)
(* Specification of the Timing Classifier: a configuration as start()      *)
(* leaves it, a sample rate and two times are drawn, each a whole number   *)
(* of sample periods; the classifiers answer on them.                      *)
(***************************************************************************)
\* sample rates drawn, in Hz
TimingRates == {1000000, 2000000, 4000000}

\* times are drawn up to Delta sample periods around each point
Delta == 2

\* the points, in microseconds: the bounds of the profile, the middle of the
\* 1-bit bounds and half the longest stretched 0-bit
TimingPoints(TM) ==
    LET row == IF TM = timingExperimental THEN ExpDefaults ELSE timing[TM + 1]
    IN {row[1], row[2], (row[1] + row[2]) \div 2, row[4], row[5], row[6],
        BIT0MAXSTRECHEDTOTAL \div 2}

HalfSpans(TM, hz) ==
    {n \in {Micro(t) \div SamplePeriod(hz) + d :
              t \in TimingPoints(TM), d \in -Delta .. Delta} : n >= 0}

\* no packet in hand
PacketIdle ==
    /\ serviceMode = FALSE
    /\ speed14 = FALSE
    /\ AddrOffset = 0
    /\ NoSearch
    /\ options = NoOptions
    /\ packetByte = <<>>
    /\ flipped = <<>>
    /\ result = Frame0
    /\ pc = "idle"

InitTiming ==
    /\ PacketIdle
    /\ \E mode \in TimingModes, hz \in TimingRates :
          /\ samplerate = [kind |-> "int", hz |-> hz]
          /\ timingModeNo = ModeNo(mode, hz)
          /\ minCountPreambleBits = MinCount(mode, 17)
          /\ accuracy = SamplePeriod(hz)
          /\ \E n1, n2 \in HalfSpans(ModeNo(mode, hz), hz) :
                halves = <<n1 * SamplePeriod(hz), n2 * SamplePeriod(hz)>>
    /\ rcnAllowStrechedZero \in {"no", "yes"}
    /\ timingCompare \in {"off", "on"}
    /\ ignoreInterferingPulse = "no"
    /\ preambleBitsCount = 17
    /\ expTiming = ExpDefaults
    /\ verdict = NoVerdict
    /\ self = SelfAfterReset
    /\ signal = <<>>
    /\ out = <<>>
    /\ raised = ""
    /\ handled = <<>>
    /\ errPos = -1
    /\ phase = "started"

\* the classifiers are called as decode calls them (pd.py:2055, 2073, 2110,
\* 2116, 2131)
ClassifyHalves ==
    /\ ~verdict.done
    /\ LET part1 == halves[1]
           part2 == halves[2]
       IN verdict' = [done |-> TRUE,
                      half1 |-> isHalf1Bit(part1),
                      one |-> is1Bit(part1, part2),
                      zero |-> is0Bit(part1, part2),
                      streched |-> isStreched0Bit(part1, part2)]
    /\ UNCHANGED <<cfgVars, pktVars, timVars, halves, syncVars>>

NextTiming == ClassifyHalves

SpecTiming == InitTiming /\ [][NextTiming]_vars

(***************************************************************************)
(* Specification of the Railcom cutout tests: a decoder waiting for a      *)
(* preamble, right after a stop bit, right after a Railcom cutout or       *)
(* later, and two intervals whose total lies around a bound are drawn;     *)
(* isRailcomCutout and isBroken1BitAfterRailcomCutout answer on the total. *)
(***************************************************************************)
\* the flags of a decoder in WAITINGFORPREAMBLE: after a stop bit, after a
\* Railcom cutout, after a stop bit and a 0 bit, and after a cutout and an
\* ignored broken 1 bit
WaitingFlags ==
    {[cutout |-> TRUE, broken |-> FALSE, stop |-> TRUE],
     [cutout |-> FALSE, broken |-> TRUE, stop |-> FALSE],
     [cutout |-> FALSE, broken |-> FALSE, stop |-> TRUE],
     [cutout |-> FALSE, broken |-> FALSE, stop |-> FALSE]}

\* the times, in microseconds, around which the totals are drawn: the
\* bounds of the Railcom cutout and of the broken 1 bit
CutoutPoints(TM) ==
    LET half1Max == (IF TM = timingExperimental THEN ExpDefaults
                     ELSE timing[TM + 1])[BIT1MAX + 1]
    IN {half1Max, 453, RAILCOMCUTOUTMIN, RAILCOMCUTOUTMAX,
        RAILCOMCUTOUTMAX + 2 * half1Max}

\* totals in sample periods, up to Delta + 1 around each point
CutoutSpans(TM, hz) ==
    {Micro(t) \div SamplePeriod(hz) + d :
       t \in CutoutPoints(TM), d \in -(Delta + 1) .. Delta + 1}

InitCutout ==
    /\ PacketIdle
    /\ \E mode \in TimingModes, hz \in TimingRates :
          /\ ModeNo(mode, hz) # timingINVALID
          /\ samplerate = [kind |-> "int", hz |-> hz]
          /\ timingModeNo = ModeNo(mode, hz)
          /\ minCountPreambleBits = MinCount(mode, 17)
          /\ accuracy = SamplePeriod(hz)
          /\ \E n \in CutoutSpans(ModeNo(mode, hz), hz) :
                LET n1 == Micro(30) \div SamplePeriod(hz)
                IN halves = <<n1 * SamplePeriod(hz), (n - n1) * SamplePeriod(hz)>>
    /\ rcnAllowStrechedZero = "no"
    /\ timingCompare = "off"
    /\ ignoreInterferingPulse = "no"
    /\ preambleBitsCount = 17
    /\ expTiming = ExpDefaults
    /\ verdict = NoVerdict
    /\ \E f \in WaitingFlags :
          self = [SelfAfterReset EXCEPT !.dccStatus = "WAITINGFORPREAMBLE",
                                        !.syncSignal = FALSE,
                                        !.railcomCutoutPossible = f.cutout,
                                        !.broken1bitPossible = f.broken,
                                        !.lastPacketWasStop = f.stop]
    /\ signal = <<>>
    /\ out = <<>>
    /\ raised = ""
    /\ handled = <<>>
    /\ errPos = -1
    /\ phase = "decoding"

\* the two tests are called as decode calls them (pd.py:2118, 2134, 2148)
ClassifyTotal ==
    /\ ~verdict.done
    /\ LET total == halves[1] + halves[2]
       IN verdict' = [done |-> TRUE,
                      cutout |-> isRailcomCutout(self, total),
                      broken |-> isBroken1BitAfterRailcomCutout(self, total)]
    /\ UNCHANGED <<cfgVars, pktVars, timVars, halves, syncVars>>

NextCutout == ClassifyTotal

SpecCutout == InitCutout /\ [][NextCutout]_vars

(***************************************************************************)
(* Specification of the comparison with the experimental profile: start()  *)
(* has read a valid experimental profile from the options B1min ..         *)
(* B0max_streched, `compare experimental timing' is on, and two times      *)
(* around the bounds of the active and of the experimental profile are     *)
(* drawn; the classifiers answer on them.                                  *)
(***************************************************************************)
\* sample rates at which no timing mode is invalid, in Hz
CompareRates == {2000000, 4000000}

\* values of the options B1min .. B0max_streched that pass the tests of
\* pd.py:2021-2040: the defaults, a profile below and a profile above the
\* fixed ones
ExpProfiles == {ExpDefaults,
                <<40, 50, 2, 70, 7000, 10000>>,
                <<70, 80, 12, 125, 140, 150>>}

\* the points, in microseconds: the bounds of both profiles and half the
\* longest stretched 0-bit
ComparePoints(TM, exp) ==
    LET row == IF TM = timingExperimental THEN exp ELSE timing[TM + 1]
    IN {row[1], row[2], row[4], row[5], exp[1], exp[2], exp[4], exp[5], exp[6],
        BIT0MAXSTRECHEDTOTAL \div 2}

CompareSpans(TM, exp, hz) ==
    {n \in {Micro(t) \div SamplePeriod(hz) + d :
              t \in ComparePoints(TM, exp), d \in -Delta .. Delta} : n >= 0}

InitCompare ==
    /\ PacketIdle
    /\ \E mode \in TimingModes, hz \in CompareRates, exp \in ExpProfiles :
          /\ samplerate = [kind |-> "int", hz |-> hz]
          /\ timingModeNo = ModeNo(mode, hz)
          /\ minCountPreambleBits = MinCount(mode, 17)
          /\ accuracy = SamplePeriod(hz)
          /\ expTiming = exp
          /\ \E n1, n2 \in CompareSpans(ModeNo(mode, hz), exp, hz) :
                halves = <<n1 * SamplePeriod(hz), n2 * SamplePeriod(hz)>>
    /\ rcnAllowStrechedZero \in {"no", "yes"}
    /\ timingCompare = "on"
    /\ ignoreInterferingPulse = "no"
    /\ preambleBitsCount = 17
    /\ verdict = NoVerdict
    /\ self = SelfAfterReset
    /\ signal = <<>>
    /\ out = <<>>
    /\ raised = ""
    /\ handled = <<>>
    /\ errPos = -1
    /\ phase = "started"

SpecCompare == InitCompare /\ [][NextTiming]_vars

(***************************************************************************)
(* Signals for the synchronizer, as the distances in microseconds between  *)
(* successive edges: half 1 bits of 58 us, half 0 bits of 100 us.          *)
(***************************************************************************)
\* k distances of t microseconds
Rep(k, t) == [i \in 1 .. k |-> t]

\* one bit: two equal half bits
Bit(b) == IF b = 1 THEN <<58, 58>> ELSE <<100, 100>>

\* the 8 bits of a byte, most significant first
ByteBits(v) ==
    [i \in 1 .. 16 |-> Bit((v \div Pow2(8 - (i + 1) \div 2)) % 2)[1]]

\* a packet after its preamble: each byte after a 0 bit, then the stop bit
RECURSIVE PacketWave(_)
PacketWave(vals) ==
    IF vals = <<>> THEN Bit(1)
    ELSE Bit(0) \o ByteBits(Head(vals)) \o PacketWave(Tail(vals))

\* the sum of the distances a .. b
RECURSIVE SumOf(_, _, _)
SumOf(dists, a, b) ==
    IF a > b THEN 0
    ELSE IF a = b THEN dists[a]
    ELSE SumOf(dists, a, (a + b) \div 2) + SumOf(dists, (a + b) \div 2 + 1, b)

\* the times of the edges: the running sums of the distances
EdgeTimes(dists) == [i \in 1 .. Len(dists) |-> SumOf(dists, 1, i)]

\* the first edge comes after 30 us
Lead == <<30>>

\* numbers of half 1 bits before the packet: around the once and the twice
\* of the preamble lengths asked for
Preambles == {9, 10, 11, 19, 20, 21, 22}

\* a preamble long enough in every mode
LongPreamble == Rep(24, 58)

\* packets sent: idle, a speed command, the one too short, and a time
\* command with weekday 7
SyncPackets == {<<255, 0, 255>>, <<3, 100, 103>>, <<3, 3>>, <<0, 193, 0, 224, 0>>}

\* the part of a first packet sent before the signal is disturbed: nothing,
\* three bits, a byte and two bits of the next
Partials == {<<>>, Bit(1) \o Bit(0) \o Bit(1),
             ByteBits(3) \o Bit(0) \o Bit(0) \o Bit(1)}

\* the disturbance: one or two half bits of 75 us
Faults == {<<75>>, <<75, 75>>}

\* what follows the last packet
Trailer == Rep(4, 58)

\* a packet after k half 1 bits
PlainWaves ==
    {Lead \o Rep(k, 58) \o PacketWave(P) \o Trailer :
       k \in Preambles, P \in SyncPackets}

\* a packet that is disturbed, then a packet after k half 1 bits
DisturbedWaves ==
    {Lead \o LongPreamble \o Bit(0) \o part \o fault \o Rep(k, 58)
       \o PacketWave(<<3, 100, 103>>) \o Trailer :
       part \in Partials, fault \in Faults, k \in 19 .. 23}

\* a packet, then a preamble of j 1 bits and a second packet, which is too
\* short for j = 2 and is followed by a third packet after a long preamble
FollowingWaves ==
    {Lead \o LongPreamble \o PacketWave(<<255, 0, 255>>) \o Rep(2 * j, 58)
       \o PacketWave(<<3, 100, 103>>) \o LongPreamble
       \o PacketWave(<<3, 63, 60>>) \o Trailer : j \in {2, 9, 12}}

\* a packet, then a preamble of 2 1 bits that a 0 bit ends, then a packet
\* after k half 1 bits
AbortedWaves ==
    {Lead \o LongPreamble \o PacketWave(<<255, 0, 255>>) \o Rep(4, 58) \o Bit(0)
       \o Rep(k, 58) \o PacketWave(<<3, 100, 103>>) \o Trailer :
       k \in {19, 20, 22}}

\* a packet, a Railcom cutout, a broken 1 bit, a packet whose start bit is a
\* stretched 0 bit, a packet with a pulse of 3 us in a 1 bit, and a packet
\* followed by a Railcom cutout that starts with a half 0 bit
SpecialWaves ==
    {Lead \o LongPreamble \o PacketWave(<<255, 0, 255>>) \o <<30, 440>>
       \o <<20, 30>> \o Rep(24, 58) \o PacketWave(<<3, 100, 103>>) \o Trailer,
     Lead \o LongPreamble \o PacketWave(<<255, 0, 255>>) \o <<100, 370>>
       \o Rep(24, 58) \o PacketWave(<<3, 100, 103>>) \o Trailer,
     Lead \o LongPreamble \o <<100, 2000>> \o ByteBits(3)
       \o PacketWave(<<100, 103>>) \o Trailer,
     Lead \o LongPreamble \o Bit(0) \o <<58, 20, 3, 35>> \o <<58, 58>>
       \o <<3, 3>> \o <<58, 55, 3>> \o LongPreamble
       \o PacketWave(<<255, 0, 255>>) \o Trailer}

\* a packet, then a 0 bit, two 0 bits, a Railcom cutout, a Railcom cutout
\* with a pulse of 3 us in it, or a Railcom cutout and after it two bits of
\* 50 us, a bit of 50 us and two pulses of 3 us, a bit of 64 us or a bit of
\* 65 us, then a preamble of 9 1 bits and a second packet
SeparatedWaves ==
    {Lead \o LongPreamble \o PacketWave(<<255, 0, 255>>) \o mid \o Rep(18, 58)
       \o PacketWave(<<3, 100, 103>>) \o Trailer :
       mid \in {Bit(0), Bit(0) \o Bit(0), <<30, 440>>, <<30, 3, 3, 434>>,
                <<30, 440, 20, 30, 20, 30>>, <<30, 440, 20, 30, 3, 3>>,
                <<30, 440, 30, 34>>,
                <<30, 440, 30, 35>>}}

Waves ==
    PlainWaves \cup DisturbedWaves \cup FollowingWaves \cup AbortedWaves
      \cup SeparatedWaves \cup SpecialWaves

(***************************************************************************)
(* Specification of the Frame Synchronizer: the decoder is constructed, a  *)
(* signal is attached; metadata may give the sample rate, start reads the  *)
(* options, decode runs pass by pass until the signal ends.                *)
(***************************************************************************)
\* what metadata gives as the sample rate: None, -1 Hz, 0 Hz, 20 kHz, 1 MHz,
\* 2 MHz
SyncRates ==
    {[kind |-> "None", hz |-> 0]}
      \cup {[kind |-> "int", hz |-> v] : v \in {-1, 0, 20000, 1000000, 2000000}}

\* the options drawn: Timing_mode, RCN_allow_streched_zero,
\* Ignore_short_pulse, Timing_compare, Preamble_bits_count
Config(mode, allow, ignore, compare, count) ==
    [mode |-> mode, allow |-> allow, ignore |-> ignore, compare |-> compare,
     count |-> count]

SyncConfigs ==
    {Config("NMRA decoding", "no", "no", "off", 17),
     Config("NMRA decoding", "no", "yes", "off", 17),
     Config("RCN decoding", "no", "no", "off", 17),
     Config("RCN decoding", "yes", "no", "on", 17),
     Config("NMRA compliance testing", "no", "no", "off", 10),
     Config("RCN compliance testing track", "no", "no", "off", 11),
     Config("RCN compliance testing station", "yes", "no", "off", 9),
     Config("Experimental", "no", "no", "off", 17)}

InitSync ==
    /\ PacketIdle
    /\ TimingAfterReset
    /\ ClassifierIdle
    /\ SyncAfterReset
    /\ \E w \in Waves : signal = EdgeTimes(w)

\* pd.py:382-384  metadata(SRD_CONF_SAMPLERATE, value), before start
Metadata ==
    /\ phase = "new"
    /\ samplerate.kind = "unset"
    /\ \E v \in SyncRates : samplerate' = v
    /\ UNCHANGED <<cfgVars, pktVars, clsVars, syncVars, options, timingModeNo,
                   rcnAllowStrechedZero, timingCompare, ignoreInterferingPulse,
                   preambleBitsCount, minCountPreambleBits, expTiming, accuracy>>

\* pd.py:264-380  start(): the options are read; a compliance mode compares
\* self.samplerate, which raises when it is not a number.  The search
\* options are left empty and CV_29_1, Mode_112_127 at their defaults, so
\* that the fields of cfgVars keep their values.
Start ==
    /\ phase = "new"
    /\ \E c \in SyncConfigs :
          /\ rcnAllowStrechedZero' = c.allow
          /\ preambleBitsCount' = c.count
          /\ ignoreInterferingPulse' = c.ignore
          /\ timingCompare' = c.compare
          /\ IF c.mode \in ComplianceModes /\ samplerate.kind # "int"
             THEN /\ raised' = IF samplerate.kind = "unset"
                               THEN "AttributeError" ELSE "TypeError"
                  /\ phase' = "start_failed"
                  /\ UNCHANGED <<timingModeNo, minCountPreambleBits, expTiming>>
             ELSE /\ timingModeNo' = ModeNo(c.mode, samplerate.hz)
                  /\ minCountPreambleBits' = MinCount(c.mode, c.count)
                  /\ expTiming' = ExpDefaults
                  /\ phase' = "started"
                  /\ UNCHANGED raised
    /\ UNCHANGED <<cfgVars, pktVars, clsVars, options, samplerate, accuracy,
                   self, signal, out, handled, errPos>>

\* pd.py:1955-1986  decode() up to its loop
Decode ==
    /\ phase = "started"
    /\ IF samplerate.kind = "unset"
       THEN /\ raised' = "AttributeError"
            /\ phase' = "decode_failed"
            /\ UNCHANGED <<self, out, accuracy>>
       ELSE IF samplerate.kind = "None" \/ samplerate.hz <= 0
       THEN /\ raised' = "SamplerateError"
            /\ phase' = "decode_failed"
            /\ UNCHANGED <<self, out, accuracy>>
       ELSE LET r == DecodeStart(StepOf(self))
            IN /\ self' = r.self
               /\ out' = r.out
               /\ accuracy' = IF r.eof THEN accuracy
                              ELSE SamplePeriod(samplerate.hz)
               /\ phase' = IF r.eof THEN "eof" ELSE "decoding"
               /\ UNCHANGED raised
    /\ UNCHANGED <<cfgVars, pktVars, clsVars, options, samplerate, timingModeNo,
                   rcnAllowStrechedZero, timingCompare, ignoreInterferingPulse,
                   preambleBitsCount, minCountPreambleBits, expTiming,
                   signal, handled, errPos>>

\* pd.py:1988-2199  one pass of the loop of decode
PassDone(r) ==
    /\ self' = r.self
    /\ out' = r.out
    /\ raised' = r.exc
    /\ phase' = IF r.exc # "" THEN "crashed"
                ELSE IF r.eof THEN "eof" ELSE "decoding"
    /\ handled' = IF r.resync THEN <<>> ELSE handled \o r.calls
    /\ errPos' = IF ~r.resync THEN errPos
                 ELSE IF r.eof THEN -1 ELSE r.self.edge_1

DecodePass ==
    /\ phase = "decoding"
    /\ PassDone(Pass(StepOf(self)))
    /\ UNCHANGED <<cfgVars, pktVars, timVars, clsVars, signal>>

NextSync == Metadata \/ Start \/ Decode \/ DecodePass

SpecSync == InitSync /\ [][NextSync]_vars

(***************************************************************************)
(* Specification of the configuration errors: start() has read options     *)
(* that decode reports, or options next to them that it accepts, and       *)
(* decode runs on a signal.                                                *)
(***************************************************************************)
\* the options and the sample rate: Timing_mode, the rate in Hz,
\* Preamble_bits_count, Timing_compare, B1min .. B0max_streched (-255: not
\* a number) and the search options
Setup(mode, hz, count, compare, exp, search) ==
    [mode |-> mode, hz |-> hz, count |-> count, compare |-> compare,
     exp |-> exp, search |-> search]

\* Search_byte is filled in
OnlyByte(o) == [NoOptions EXCEPT !.Search_byte = o]

\* a rate below 25 kHz; a compliance mode below 2 MHz; each search option
\* out of its range; a compliance mode with 9 preamble bits; experimental
\* bounds that are out of order or not a number, with the experimental
\* profile in use
FaultySetups ==
    {Setup("NMRA decoding", 20000, 17, "off", ExpDefaults, NoOptions),
     Setup("RCN compliance testing track", 1000000, 17, "off", ExpDefaults,
           NoOptions),
     Setup("NMRA decoding", 2000000, 17, "off", ExpDefaults, OnlyByte(<<300>>)),
     Setup("NMRA decoding", 2000000, 17, "off", ExpDefaults,
           [NoOptions EXCEPT !.Search_acc_addr = <<0>>]),
     Setup("RCN decoding", 2000000, 17, "off", ExpDefaults,
           [NoOptions EXCEPT !.Search_dec_addr = <<10240>>]),
     Setup("RCN decoding", 2000000, 17, "off", ExpDefaults,
           [NoOptions EXCEPT !.Search_cv = <<0>>]),
     Setup("NMRA compliance testing", 2000000, 9, "off", ExpDefaults, NoOptions),
     Setup("Experimental", 2000000, 17, "off", <<70, 64, 6, 90, 119, 10000>>,
           NoOptions),
     Setup("RCN decoding", 2000000, 17, "on", <<52, 64, 6, 90, 119, 100>>,
           NoOptions),
     Setup("NMRA decoding", 1000000, 17, "on", <<52, 64, -255, 90, 119, 10000>>,
           NoOptions)}

\* the same with the value in range, the 10 preamble bits, and the
\* experimental bounds out of order while the profile is not in use
SoundSetups ==
    {Setup("NMRA decoding", 2000000, 17, "off", ExpDefaults, OnlyByte(<<3>>)),
     Setup("NMRA compliance testing", 2000000, 10, "off", ExpDefaults, NoOptions),
     Setup("NMRA decoding", 2000000, 17, "off", <<70, 64, 6, 90, 119, 10000>>,
           NoOptions)}

\* a packet after a long preamble, alone and followed by a Railcom cutout
\* and a second packet
SetupWaves ==
    {Lead \o LongPreamble \o PacketWave(<<3, 100, 103>>) \o Trailer,
     Lead \o LongPreamble \o PacketWave(<<255, 0, 255>>) \o <<30, 440>>
       \o Rep(24, 58) \o PacketWave(<<3, 100, 103>>) \o Trailer}

InitSetup ==
    /\ serviceMode = FALSE
    /\ speed14 = FALSE
    /\ AddrOffset = 0
    /\ command_search = ""
    /\ packetByte = <<>>
    /\ flipped = <<>>
    /\ result = Frame0
    /\ pc = "idle"
    /\ ClassifierIdle
    /\ \E c \in FaultySetups \cup SoundSetups :
          /\ options = c.search
          /\ acc_addr_search = SearchOption(c.search.Search_acc_addr, 1, 2048)
          /\ dec_addr_search = SearchOption(c.search.Search_dec_addr, 0, 10239)
          /\ cv_addr_search = SearchOption(c.search.Search_cv, 1, 16777216)
          /\ byte_search = SearchOption(c.search.Search_byte, 0, 255)
          /\ samplerate = [kind |-> "int", hz |-> c.hz]
          /\ timingModeNo = ModeNo(c.mode, c.hz)
          /\ minCountPreambleBits = MinCount(c.mode, c.count)
          /\ preambleBitsCount = c.count
          /\ timingCompare = c.compare
          /\ expTiming = c.exp
    /\ rcnAllowStrechedZero = "no"
    /\ ignoreInterferingPulse = "no"
    /\ accuracy = 0
    /\ self = SelfAfterReset
    /\ out = <<>>
    /\ raised = ""
    /\ handled = <<>>
    /\ errPos = -1
    /\ phase = "started"
    /\ \E w \in SetupWaves : signal = EdgeTimes(w)

NextSetup == Decode \/ DecodePass

SpecSetup == InitSetup /\ [][NextSetup]_vars

(***************************************************************************)
(* Specification of short preambles: two packets, and after a packet a     *)
(* preamble of j 1 bits that a 0 bit ends.                                 *)
(***************************************************************************)
\* the numbers of 1 bits that the 0 bit ends
ShortPreambles == {1, 2, 3}

\* the decoding modes at 1 MHz, a compliance mode at 2 MHz
PreambleSetups ==
    {Setup("NMRA decoding", 1000000, 17, "off", ExpDefaults, NoOptions),
     Setup("RCN decoding", 1000000, 17, "off", ExpDefaults, NoOptions),
     Setup("NMRA compliance testing", 2000000, 10, "off", ExpDefaults,
           NoOptions)}

\* a packet; a short preamble or none; a second packet after a long
\* preamble; a short preamble
PreambleWaves ==
    {Lead \o LongPreamble \o PacketWave(<<255, 0, 255>>) \o first
       \o LongPreamble \o PacketWave(<<3, 100, 103>>)
       \o Rep(2 * j, 58) \o Bit(0) \o Trailer :
       j \in ShortPreambles, first \in {<<>>, Rep(2, 58) \o Bit(0)}}

InitPreamble ==
    /\ PacketIdle
    /\ ClassifierIdle
    /\ \E c \in PreambleSetups :
          /\ samplerate = [kind |-> "int", hz |-> c.hz]
          /\ timingModeNo = ModeNo(c.mode, c.hz)
          /\ minCountPreambleBits = MinCount(c.mode, c.count)
          /\ preambleBitsCount = c.count
          /\ timingCompare = c.compare
          /\ expTiming = c.exp
    /\ rcnAllowStrechedZero = "no"
    /\ ignoreInterferingPulse = "no"
    /\ accuracy = 0
    /\ self = SelfAfterReset
    /\ out = <<>>
    /\ raised = ""
    /\ handled = <<>>
    /\ errPos = -1
    /\ phase = "started"
    /\ \E w \in PreambleWaves : signal = EdgeTimes(w)

SpecPreamble == InitPreamble /\ [][NextSetup]_vars

(***************************************************************************)
(* Properties of the Packet Decoder.                                       *)
(***************************************************************************)
Done == pc = "done"

\* the annotations of the finished call
Anns == {result.anns[i] : i \in 1 .. Len(result.anns)}

LastByte == Len(packetByte) - 1

\* the 'Checksum: OK' Frame annotation on the last byte
ChecksumOK ==
    Annotation(BitPos(packetByte, LastByte, 0), BitPos(packetByte, LastByte, 8),
               "FRAME", "Checksum: OK", 0)

\* the checksum Error annotation (it spans the whole packet)
ChecksumError ==
    Annotation(BitPos(packetByte, 0, 0), BitPos(packetByte, LastByte, 8),
               "ERROR", "Checksum", 0)

\* the call ran up to the checksum step with the last byte not yet decoded
ReachedChecksum ==
    ~result.ret /\ result.exc = "" /\ result.pos + 1 < Len(packetByte)

\* the byte values before bit flipped[2] of byte flipped[1] was inverted
SentValues ==
    IF flipped = <<>> THEN Values(packetByte)
    ELSE [Values(packetByte) EXCEPT ![flipped[1] + 1] = Xor(@, Pow2(flipped[2]))]

\* C1 (as stated): for every packet of n >= 3 bytes whose last byte is the XOR
\* of the bytes before it, handleDecodedBytes puts 'Checksum: OK' on the last
\* byte and no checksum Error.
C1_Original ==
    (Done /\ ValidXor(Values(packetByte)))
        => (ChecksumOK \in Anns /\ ChecksumError \notin Anns)

\* C1 (amended): for every packet of n >= 3 bytes whose last byte is the XOR of
\* the bytes before it, handleDecodedBytes puts no checksum Error, and it puts
\* 'Checksum: OK' on the last byte exactly when the call reaches the checksum
\* step (no 'Byte missing' return, no exception) with the last byte not
\* consumed by the instruction decoding.
C1_ChecksumOK ==
    (Done /\ ValidXor(Values(packetByte)))
        => /\ ChecksumError \notin Anns
           /\ ChecksumOK \in Anns <=> ReachedChecksum

\* a packet with a correct XOR checksum was decoded and reported 'Checksum: OK'
C1_Witness ==
    Done /\ ValidXor(Values(packetByte)) /\ ReachedChecksum /\ ChecksumOK \in Anns

\* C2 (as stated): after one bit of a byte other than the last of a packet
\* with a correct XOR checksum is inverted, handleDecodedBytes puts the
\* checksum Error.
C2_Original ==
    (Done /\ flipped # <<>> /\ ValidXor(SentValues)) => ChecksumError \in Anns

\* C2 (amended): after one bit of a byte other than the last of a packet with
\* a correct XOR checksum is inverted, handleDecodedBytes never puts
\* 'Checksum: OK', and it puts the checksum Error exactly when the call
\* reaches the checksum step with the last byte not consumed.
C2_FlipDetected ==
    (Done /\ flipped # <<>> /\ ValidXor(SentValues))
        => /\ ChecksumOK \notin Anns
           /\ ChecksumError \in Anns <=> ReachedChecksum

\* a corrupted packet was decoded and the checksum Error was put
C2_Witness ==
    Done /\ flipped # <<>> /\ ValidXor(SentValues) /\ ChecksumError \in Anns

\* the 'Byte missing' Error annotation of incPos on byte i
ByteMissing(i) ==
    Annotation(BitPos(packetByte, i, 0), BitPos(packetByte, i, 8), "ERROR",
               "Byte missing at next position: ", i + 2)

\* C3 (as stated): for every packet, handleDecodedBytes completes without
\* raising, and when it runs out of bytes the last annotation it put is the
\* 'Byte missing' Error on the last byte it decoded.
C3_NeverRaises ==
    Done => /\ result.exc = ""
            /\ (result.ret /\ Len(packetByte) >= 3)
                  => result.anns[Len(result.anns)] = ByteMissing(result.pos)

\* C6: for a packet of fewer than 3 bytes, handleDecodedBytes puts exactly one
\* annotation, the 'Paket too short' Error from the start of the first byte
\* to the end of the last byte.
C6_TooShort ==
    (Done /\ Len(packetByte) < 3)
        => result.anns =
             <<Annotation(BitPos(packetByte, 0, 0), BitPos(packetByte, LastByte, 8),
                          "ERROR", "Paket too short: ", Len(packetByte))>>

\* a packet of two bytes was handled
C6_Witness == Done /\ Len(packetByte) = 2 /\ Len(result.anns) = 1

\* the SearchByte annotation on byte x
SearchByteAnn(x) ==
    Annotation(BitPos(packetByte, x, 0), BitPos(packetByte, x, 8), "SEARCH_BYTE",
               "BYTE:", byte_search)

\* every address/CV criterion that is set is met by the packet's values
EverySetCriterionMet ==
    /\ dec_addr_search >= 0 => result.dec_addr = dec_addr_search
    /\ acc_addr_search >= 0 => result.acc_addr = acc_addr_search
    /\ cv_addr_search >= 0 => result.cv_addr = cv_addr_search

NoAddrCriterion == dec_addr_search < 0 /\ acc_addr_search < 0 /\ cv_addr_search < 0

Part1 == halves[1]

Part2 == halves[2]

\* t lies in [self.timing[TM][lo], self.timing[TM][hi]] of the active profile
InBounds(t, lo, hi) ==
    TimingAt(timingModeNo, lo) <= t /\ t <= TimingAt(timingModeNo, hi)

\* t lies more than the accuracy outside these bounds
FarOutside(t, lo, hi) ==
    \/ t < TimingAt(timingModeNo, lo) - accuracy
    \/ t > TimingAt(timingModeNo, hi) + accuracy

\* the classifiers answered with timing compare off
Classified == verdict.done /\ timingCompare = "off"

\* C8: with timing compare off, two times within [half1Min, half1Max] whose
\* difference is at most half1Tolerance are a 1 bit; a pair with a time more
\* than the accuracy below half1Min or above half1Max is not a 1 bit.
C8_Is1Bit ==
    Classified =>
      /\ ( /\ InBounds(Part1, BIT1MIN, BIT1MAX)
           /\ InBounds(Part2, BIT1MIN, BIT1MAX)
           /\ Abs(Part1 - Part2) <= TimingAt(timingModeNo, BIT1TOLERANCE) )
            => verdict.one
      /\ ( \/ FarOutside(Part1, BIT1MIN, BIT1MAX)
           \/ FarOutside(Part2, BIT1MIN, BIT1MAX) )
            => ~verdict.one

\* two times within the bounds, apart by exactly the tolerance of the profile
\* and by more than two sample periods, were classified as a 1 bit
C8_Witness ==
    /\ Classified /\ verdict.one
    /\ timingModeNo # timingINVALID
    /\ InBounds(Part1, BIT1MIN, BIT1MAX)
    /\ InBounds(Part2, BIT1MIN, BIT1MAX)
    /\ Abs(Part1 - Part2) = TimingAt(timingModeNo, BIT1TOLERANCE)
    /\ Abs(Part1 - Part2) > 2 * accuracy

\* t lies in (half0Max, half0MaxStretched]
OnlyStreched(t) ==
    /\ TimingAt(timingModeNo, BIT0MAX) < t
    /\ t <= TimingAt(timingModeNo, BIT0MAXSTRECHED)

\* C9 as stated: with timing compare off and stretched zeros disallowed, two
\* times within [half0Min, half0Max] are a 0 bit; a pair with a time in
\* (half0Max, half0MaxStretched] is a 0 bit only if stretched zeros are
\* permitted for the mode and the two times sum to at most 12000 us.
C9_Original ==
    Classified =>
      /\ ( /\ withoutStrechedZero
           /\ InBounds(Part1, BIT0MIN, BIT0MAX)
           /\ InBounds(Part2, BIT0MIN, BIT0MAX) )
            => verdict.zero
      /\ ( /\ OnlyStreched(Part1) \/ OnlyStreched(Part2)
           /\ verdict.zero )
            => /\ withStrechedZero
               /\ Part1 + Part2 <= Micro(BIT0MAXSTRECHEDTOTAL)

\* C9 (amended): with timing compare off and stretched zeros disallowed, two
\* times within [half0Min - accuracy, half0Max + accuracy] are a 0 bit; a
\* pair with a time above half0Max + accuracy is a 0 bit only if stretched
\* zeros are permitted for the mode and the two times sum to at most
\* 12000 us + 2 * accuracy.
C9_Is0Bit ==
    Classified =>
      /\ ( /\ withoutStrechedZero
           /\ ~FarOutside(Part1, BIT0MIN, BIT0MAX)
           /\ ~FarOutside(Part2, BIT0MIN, BIT0MAX) )
            => verdict.zero
      /\ ( /\ \/ Part1 > TimingAt(timingModeNo, BIT0MAX) + accuracy
              \/ Part2 > TimingAt(timingModeNo, BIT0MAX) + accuracy
           /\ verdict.zero )
            => /\ withStrechedZero
               /\ Part1 + Part2 <= Micro(BIT0MAXSTRECHEDTOTAL) + 2 * accuracy

\* a stretched pair summing to more than 12000 us was classified as a 0 bit
C9_Witness ==
    /\ Classified /\ verdict.zero
    /\ withStrechedZero
    /\ OnlyStreched(Part1)
    /\ Part1 + Part2 > Micro(BIT0MAXSTRECHEDTOTAL)


(***************************************************************************)
(* Frame Synchronizer claims, checked under SpecSync.                      *)
(***************************************************************************)
\* the annotations anns hold one of category cat with text txt
HasAnn(anns, cat, txt) ==
    \E i \in DOMAIN anns : anns[i].cat = cat /\ anns[i].txt = txt

\* the annotations anns hold one of category cat
HasCat(anns, cat) == \E i \in DOMAIN anns : anns[i].cat = cat

\* the edge wait() gives after sample pos, -1 when there is none
EdgeAfter(pos) ==
    LET later == {i \in DOMAIN signal : EdgeAt(i) > pos}
    IN IF later = {} THEN -1
       ELSE EdgeAt(CHOOSE i \in later : \A j \in later : i <= j)

\* the time between edge i and edge i + 1 of the signal
Gap(i) == Span(EdgeAt(i + 1) - EdgeAt(i))

\* the bit the two intervals from edge i form: 1, 0, or -1 for none
BitAt(i) ==
    IF i + 2 > Len(signal) THEN -1
    ELSE IF is1Bit(Gap(i), Gap(i + 1)) THEN 1
    ELSE IF is0Bit(Gap(i), Gap(i + 1)) THEN 0
    ELSE -1

\* the number of successive valid half 1 intervals from edge i on
RECURSIVE Half1Run(_)
Half1Run(i) ==
    IF i < Len(signal) /\ isHalf1Bit(Gap(i)) THEN 1 + Half1Run(i + 1) ELSE 0

\* the number of successive valid half 1 intervals that end at edge i
RECURSIVE Half1RunBack(_)
Half1RunBack(i) ==
    IF i > 1 /\ isHalf1Bit(Gap(i - 1)) THEN 1 + Half1RunBack(i - 1) ELSE 0

\* the value of the 8 valid bits from edge i on, -1 when one is not valid
ByteAt(i) ==
    IF \E k \in 0 .. 7 : BitAt(i + 2 * k) = -1 THEN -1
    ELSE LET v[k \in 0 .. 8] ==
                 IF k = 0 THEN 0 ELSE 2 * v[k - 1] + BitAt(i + 2 * (k - 1))
         IN v[8]

NoPacket == [ok |-> FALSE, bytes |-> <<>>, end |-> 0]

\* bytes of 8 valid bits from edge i on, separated by 0 bits and ended by a
\* 1 bit; end is the edge that ends the 1 bit
RECURSIVE BytesFrom(_, _)
BytesFrom(i, bytes) ==
    IF ByteAt(i) = -1 THEN NoPacket
    ELSE IF BitAt(i + 16) = 1
    THEN [ok |-> TRUE, bytes |-> Append(bytes, ByteAt(i)), end |-> i + 18]
    ELSE IF BitAt(i + 16) = 0 THEN BytesFrom(i + 18, Append(bytes, ByteAt(i)))
    ELSE NoPacket

\* the packet the edges from sample pos on form: at least
\* 2 * minCountPreambleBits valid half 1 intervals, a valid 0 bit, and at
\* least 3 bytes
PacketAfter(pos) ==
    IF \A i \in DOMAIN signal : EdgeAt(i) # pos THEN NoPacket
    ELSE LET i == CHOOSE j \in DOMAIN signal : EdgeAt(j) = pos
             k == Half1Run(i)
             p == BytesFrom(i + k + 2, <<>>)
         IN IF k >= 2 * minCountPreambleBits /\ BitAt(i + k) = 0
               /\ p.ok /\ Len(p.bytes) >= 3
            THEN [p EXCEPT !.end = EdgeAt(p.end)]
            ELSE NoPacket

\* a resynchronization error was reported, at the edge errPos, and the
\* passes since have not run out of edges
Resynchronizing == phase = "decoding" /\ errPos # -1

\* C4: after a resynchronization error (unknown timing, invalid preamble),
\* when the edges that follow the intervals reported form at least
\* 2 * minCountPreambleBits valid half 1 intervals, a valid 0 bit and N >= 3
\* bytes of 8 valid bits separated by 0 bits and ended by a 1 bit,
\* handleDecodedBytes is called exactly once for that packet, with exactly
\* those N byte values: no call before the 1 bit that ends it, one call with
\* these values when that bit is read, and this call the first of the calls
\* after the error.
C4_Recovers ==
    (Resynchronizing /\ PacketAfter(errPos).ok) =>
      LET p == PacketAfter(errPos)
      IN /\ self.edge_1 < p.end => handled = <<>>
         /\ self.edge_1 = p.end => handled = <<p.bytes>>
         /\ self.edge_1 > p.end => handled # <<>> /\ handled[1] = p.bytes

\* an error was reported inside a packet of which bytes had been read, and
\* the packet after it has just been handed over
C4_Witness ==
    /\ Resynchronizing /\ PacketAfter(errPos).ok
    /\ self.edge_1 = PacketAfter(errPos).end
    /\ handled = <<PacketAfter(errPos).bytes>>
    /\ \E i \in DOMAIN signal :
         /\ EdgeAt(i) < errPos
         /\ BitAt(i) = 0 /\ ByteAt(i + 2) = 3 /\ BitAt(i + 18) = 0

\* the synchronizer counts half 1 intervals and the next two intervals are
\* a 0 bit
ZeroBitAhead ==
    /\ phase = "decoding"
    /\ self.dccStatus = "SYNCRONIZESIGNAL"
    /\ ConfigError = ""
    /\ ~isHalf1Bit(Span(self.edge_2 - self.edge_1))
    /\ EdgeAfter(self.samplenum) # -1
    /\ is0Bit(Span(self.edge_2 - self.edge_1),
              Span(EdgeAfter(self.samplenum) - self.edge_2))

\* C5 as stated: in SYNCRONIZESIGNAL, a valid 0 bit after exactly
\* minCountPreambleBits half 1 intervals moves the synchronizer to
\* PREAMBLEFOUND (and on, to ADDRESSDATABYTE, with this 0 bit); after one
\* half 1 interval fewer it stays in SYNCRONIZESIGNAL and an annotation of
\* class ERROR is put.
C5_Original ==
    [][ZeroBitAhead =>
         /\ self.half1Counter = minCountPreambleBits
              => self'.dccStatus \in {"PREAMBLEFOUND", "ADDRESSDATABYTE"}
         /\ self.half1Counter = minCountPreambleBits - 1
              => /\ self'.dccStatus = "SYNCRONIZESIGNAL"
                 /\ HasCat(out', "ERROR")]_vars

\* C5 (amended): in SYNCRONIZESIGNAL, a valid 0 bit after at least
\* 2 * minCountPreambleBits half 1 intervals moves the synchronizer through
\* PREAMBLEFOUND to ADDRESSDATABYTE in the same pass, and 'Start Packet' is
\* put; after fewer half 1 intervals it stays in SYNCRONIZESIGNAL with the
\* count back at zero, and what is put is of class FRAME_OTHER
\* ('Synchronize ...'), never of class ERROR.
C5_Preamble ==
    [][ZeroBitAhead =>
         IF self.half1Counter >= 2 * minCountPreambleBits
         THEN /\ self'.dccStatus = "ADDRESSDATABYTE"
              /\ HasAnn(out', "FRAME", "Start Packet")
         ELSE /\ self'.dccStatus = "SYNCRONIZESIGNAL"
              /\ self'.half1Counter = 0
              /\ HasCat(out', "FRAME_OTHER")
              /\ ~HasCat(out', "ERROR")]_vars

\* the synchronizer went on to ADDRESSDATABYTE with a 0 bit that exactly
\* 2 * minCountPreambleBits half 1 intervals precede
C5_Witness ==
    /\ phase = "decoding"
    /\ self.dccStatus = "ADDRESSDATABYTE"
    /\ ~HasAnn(out, "FRAME", "Preamble: ") /\ ~HasAnn(out, "FRAME", "Preamble: 1+")
    /\ \E a \in DOMAIN out :
         /\ out[a].cat = "FRAME" /\ out[a].txt = "Start Packet"
         /\ \E i \in DOMAIN signal :
              /\ EdgeAt(i) = out[a].ss
              /\ Half1RunBack(i) = 2 * minCountPreambleBits

\* decode was called
DecodeCalled == phase \notin {"new", "started", "start_failed"}

\* C7: when the sample rate is missing or <= 0, decode raises SamplerateError
\* before an edge is asked for and before an annotation is put.
C7_SamplerateError ==
    (DecodeCalled /\ (samplerate.kind # "int" \/ samplerate.hz <= 0)) =>
      /\ phase = "decode_failed"
      /\ raised = "SamplerateError"
      /\ out = <<>>
      /\ self = SelfAfterReset


(***************************************************************************)
(* Byte search claims, checked under SpecByteSearch.                       *)
(***************************************************************************)
\* the places in result.anns of the SearchByte annotations
SearchByteAnns == {i \in DOMAIN result.anns : result.anns[i].cat = "SEARCH_BYTE"}

\* the bytes of the packet that equal the byte criterion
MatchingBytes == {x \in 0 .. LastByte : B(packetByte, x) = byte_search}

\* the call ran up to the search step
ReachedSearch == Len(packetByte) >= 3 /\ ~result.ret /\ result.exc = ""

\* only the byte criterion is set, to 0xFF
OnlyByteFF == byte_search = 255 /\ NoAddrCriterion /\ command_search = ""

\* C11 (as stated): with Search_byte = 0xFF and no other criterion, a packet
\* that contains 0xFF anywhere gets exactly one SearchByte annotation, and it
\* spans a 0xFF byte.
C11_Original ==
    (Done /\ OnlyByteFF /\ MatchingBytes # {})
        => /\ Cardinality(SearchByteAnns) = 1
           /\ \A i \in SearchByteAnns :
                \E x \in MatchingBytes : result.anns[i] = SearchByteAnn(x)

\* C11 (amended): with Search_byte = 0xFF and no other criterion, a call that
\* reaches the search step (packet of 3 or more bytes, no 'Byte missing'
\* return, no exception) puts one SearchByte annotation on every byte that is
\* 0xFF, each spanning its byte, and no other SearchByte annotation (exactly
\* one when the packet holds 0xFF once); a call that does not reach the search
\* step puts none.
C11_OnePerByte ==
    (Done /\ OnlyByteFF)
        => /\ \A i \in SearchByteAnns :
                \E x \in MatchingBytes : result.anns[i] = SearchByteAnn(x)
           /\ Cardinality(SearchByteAnns) =
                IF ReachedSearch THEN Cardinality(MatchingBytes) ELSE 0
           /\ ReachedSearch => \A x \in MatchingBytes : SearchByteAnn(x) \in Anns

\* the idle packet FF 00 FF was searched: both 0xFF bytes are reported
C11_Witness ==
    /\ Done /\ OnlyByteFF /\ ReachedSearch
    /\ Values(packetByte) = <<255, 0, 255>>
    /\ Cardinality(SearchByteAnns) = 2
    /\ SearchByteAnn(0) \in Anns /\ SearchByteAnn(2) \in Anns


(***************************************************************************)
(* Address and CV search claims, checked under SpecSearch.                 *)
(***************************************************************************)
\* the SearchDec, SearchAcc or SearchCV annotation: it spans the packet
\* without its last byte
SearchAddrAnn(cat, txt, criterion) ==
    Annotation(BitPos(packetByte, 0, 0), BitPos(packetByte, LastByte - 1, 8),
               cat, txt, criterion)

\* the annotations of class cat among those of the finished call
AnnsOf(cat) == {a \in Anns : a.cat = cat}

\* no byte criterion is set, or some byte of the packet equals it
ByteCriterionMet == byte_search >= 0 => MatchingBytes # {}

Dispatched112 ==
    /\ Done /\ Len(packetByte) >= 3
    /\ 112 <= B(packetByte, 0) /\ B(packetByte, 0) <= 127

\* the DataDecoder annotation of a 7 bit address on the first byte
Addr7Ann ==
    Annotation(BitPos(packetByte, 0, 0), BitPos(packetByte, 0, 8), "DATA_DEC",
               "str(dec_addr)", And(B(packetByte, 0), 127))

\* the Command annotation of a 7 bit address on the first byte
Addr7Command ==
    Annotation(BitPos(packetByte, 0, 0), BitPos(packetByte, 0, 8), "COMMAND",
               "Multi Function Decoder with 7 bit address", 0)

\* the Command annotation of the register/page form on bytes 0 and 1
RegisterPageCommand ==
    Annotation(BitPos(packetByte, 0, 0), BitPos(packetByte, 1, 8), "COMMAND",
               "Register/Page Mode (outdated)", 0)

\* the Command annotation of the direct CV form on the first byte
ServiceModeCommand ==
    Annotation(BitPos(packetByte, 0, 0), BitPos(packetByte, 0, 8), "COMMAND",
               "Service Mode", 0)

\* C13: a packet with first byte 112..127 that passed the length check is, in
\* service mode, never decoded as a 7 bit multi-function address (dec_addr
\* stays -1, no DataDecoder annotation) and is recognised only as the
\* register/page form (3 bytes) or the direct CV form (4 bytes), any other
\* length being reported as unknown; in operation mode it is decoded as a
\* 7 bit multi-function address with dec_addr = first byte & 0x7F.
C13_Dispatch ==
    Dispatched112 =>
      IF serviceMode
      THEN /\ result.dec_addr = -1
           /\ AnnsOf("DATA_DEC") = {}
           /\ Addr7Command \notin Anns
           /\ Len(packetByte) = 3
                => /\ result.validPacketFound
                   /\ RegisterPageCommand \in Anns
           /\ Len(packetByte) = 4
                => /\ result.validPacketFound
                   /\ result.anns[1] = ServiceModeCommand
           /\ Len(packetByte) \notin {3, 4}
                => /\ ~result.validPacketFound
                   /\ result.commandText1 = ""
                   /\ \A a \in AnnsOf("COMMAND") : a.txt = "?:hex/str"
                   /\ \A a \in AnnsOf("INFO") :
                        a.txt = "Unknown (maybe operation mode packet)"
                   /\ AnnsOf("INFO") # {}
      ELSE /\ result.dec_addr = And(B(packetByte, 0), 127)
           /\ result.anns[1] = Addr7Ann
           /\ result.anns[2] = Addr7Command
           /\ RegisterPageCommand \notin Anns
           /\ ServiceModeCommand \notin Anns

\* the same 4 byte packet with first byte 124 was dispatched in service mode
\* as a direct CV packet
C13_Witness ==
    /\ Dispatched112 /\ serviceMode
    /\ B(packetByte, 0) = 124 /\ Len(packetByte) = 4
    /\ result.anns[1] = ServiceModeCommand /\ result.cv_addr # -1
    /\ result.dec_addr = -1


(***************************************************************************)
(* Railcom cutout in the compliance testing modes, checked under SpecSync. *)
(***************************************************************************)
\* one of the three compliance testing modes is selected
ComplianceTiming ==
    timingModeNo \in {timingNMRAcompliance, timingRCNcomplianceT,
                      timingRCNcomplianceS}

\* the time total lies in the window of a Railcom cutout (pd.py:1940)
InCutoutWindow(total) ==
    /\ Micro(RAILCOMCUTOUTMIN) - accuracy <= total
    /\ total <= Micro(RAILCOMCUTOUTMAX)
                  + 2 * (TimingAt(timingModeNo, BIT1MAX) + accuracy)

\* the next pass classifies, right after a stop bit, two intervals whose
\* total lies in the window of a Railcom cutout
CutoutAhead ==
    /\ phase = "decoding" /\ ConfigError = ""
    /\ self.dccStatus = "WAITINGFORPREAMBLE"
    /\ self.railcomCutoutPossible
    /\ EdgeAfter(self.samplenum) # -1
    /\ InCutoutWindow(Span(EdgeAfter(self.samplenum) - self.edge_1))

\* the annotations anns report unknown timing
UnknownTimingIn(anns) ==
    HasAnn(anns, "ERROR", "unknown timing - should not occur - dirty signal?")

\* C14: in the three compliance testing modes no pass of decode puts a
\* 'Railcom cutout' annotation or expects a broken 1 bit after one, and two
\* intervals in the cutout window right after a stop bit are classified as a
\* 0 bit or reported as unknown timing, with a resynchronization.
C14_NoCutout ==
    [][(phase = "decoding" /\ ComplianceTiming)
         => /\ ~HasAnn(out', "BITS", "Railcom cutout")
            /\ ~self'.broken1bitPossible
            /\ CutoutAhead
                 => \/ /\ HasAnn(out', "BITS", "0")
                       /\ ~UnknownTimingIn(out')
                       /\ self'.dccStatus = "WAITINGFORPREAMBLE"
                    \/ /\ UnknownTimingIn(out')
                       /\ ~HasCat(out', "BITS")
                       /\ self'.dccStatus = "SYNCRONIZESIGNAL"]_vars

\* in a compliance testing mode the two intervals after the stop bit of the
\* idle packet, in the cutout window, were reported as unknown timing
C14_Witness ==
    /\ phase = "decoding" /\ ComplianceTiming
    /\ UnknownTimingIn(out)
    /\ \E a \in DOMAIN out :
         /\ out[a].cat = "BITS_OTHER" /\ out[a].txt = "unknown timing"
         /\ InCutoutWindow(out[a].val)
         /\ \E i \in DOMAIN signal :
              /\ EdgeAt(i) = out[a].ss
              /\ i > 56 /\ BitAt(i - 2) = 1 /\ ByteAt(i - 18) = 255
              /\ ByteAt(i - 36) = 0 /\ ByteAt(i - 54) = 255


(***************************************************************************)
(* Decoding under a checksum mismatch, checked under SpecChecksum.         *)
(***************************************************************************)
\* the second call is about to run: result is the frame of the first call,
\* packetByte the packet with its last byte changed
SecondCall == pc = "ready" /\ flipped # <<>>

\* the annotations of frame h that end before the last byte of the packet
PrecedingAnns(h) ==
    SelectSeq(h.anns, LAMBDA a : a.es <= BitPos(packetByte, LastByte - 1, 8))

\* frame h reports the checksum as OK, or as wrong
SaysOK(h) == \E i \in DOMAIN h.anns : h.anns[i] = ChecksumOK

SaysError(h) == \E i \in DOMAIN h.anns : h.anns[i] = ChecksumError

\* the call that ended with frame h ran up to the checksum step with the
\* last byte not consumed by the instruction decoding
CheckedLast(h) == ~h.ret /\ h.exc = "" /\ h.pos + 1 < Len(packetByte)

\* the packet is the system command of 5 bytes whose label depends on the
\* last byte being 64
LooksAhead ==
    /\ Len(packetByte) = 5 /\ B(packetByte, 0) = 255 /\ B(packetByte, 1) # 0
    /\ B(packetByte, 2) = 62 /\ B(packetByte, 3) = 7

\* C15 (as stated): for every packet of 3 or more bytes, changing only the
\* last byte leaves the decoder address, accessory address, CV and the
\* annotations of the bytes before the last unchanged.
C15_Original ==
    [][SecondCall
         => /\ result'.dec_addr = result.dec_addr
            /\ result'.acc_addr = result.acc_addr
            /\ result'.cv_addr = result.cv_addr
            /\ PrecedingAnns(result') = PrecedingAnns(result)]_vars

\* C15 (amended): for every packet of 3 or more bytes whose last byte the
\* instruction decoding does not consume (the first call reaches the checksum
\* step without 'Byte missing' return or exception), changing only the last
\* byte leaves the position reached, the decoder address, accessory address
\* and CV unchanged, and the annotations of the bytes before the last too,
\* unless the packet is the 5 byte system command FF xx 3E 07 whose label
\* depends on the last byte; each call reports 'Checksum: OK' when the last
\* byte is the XOR of the others and the checksum Error otherwise.
C15_BestEffort ==
    [][(SecondCall /\ CheckedLast(result))
         => /\ CheckedLast(result')
            /\ result'.pos = result.pos
            /\ result'.dec_addr = result.dec_addr
            /\ result'.acc_addr = result.acc_addr
            /\ result'.cv_addr = result.cv_addr
            /\ ~LooksAhead => PrecedingAnns(result') = PrecedingAnns(result)
            /\ LooksAhead
                 => /\ Len(PrecedingAnns(result')) = Len(PrecedingAnns(result))
                    /\ \A i \in DOMAIN PrecedingAnns(result) :
                         PrecedingAnns(result')[i].txt # PrecedingAnns(result)[i].txt
                           => PrecedingAnns(result)[i].cat = "COMMAND"
            /\ SaysOK(result') # SaysError(result')
            /\ SaysOK(result')
                 <=> B(packetByte, LastByte) = XorBytes(packetByte, LastByte)
            /\ SaysOK(result) => SaysError(result')]_vars

\* a packet with an address and a command decoded was decoded again with a
\* wrong last byte: the checksum Error is put, the address and the
\* annotations before the last byte are those of the first call
C15_Witness ==
    /\ Done /\ flipped # <<>>
    /\ SaysError(result)
    /\ result.dec_addr = 3
    /\ Len(PrecedingAnns(result)) >= 3
    /\ XorBytes(packetByte, LastByte)
         = Xor(B(packetByte, LastByte), Pow2(flipped[2]))


(***************************************************************************)
(* The idle packet, checked under SpecPacket.                              *)
(***************************************************************************)
\* the Command annotation 'Idle' on the first two bytes
IdleAnn ==
    Annotation(BitPos(packetByte, 0, 0), BitPos(packetByte, 1, 8), "COMMAND",
               "Idle", 0)

\* the Command annotation of a system command, from the second byte to the
\* byte before the last
SystemCommandAnns ==
    {Annotation(BitPos(packetByte, 1, 0), BitPos(packetByte, LastByte - 1, 8),
                "COMMAND", t, 0) :
       t \in {"System command (not documented)",
              "System command (not documented) (IDNotify?)"}}

\* C16: the idle packet FF 00 FF gets the Command annotation 'Idle' and
\* 'Checksum: OK' and no Error annotation; a packet of 3 or more bytes with
\* first byte 255 is labelled 'Idle' iff its second byte is 0, and otherwise
\* as a system command that is not documented.
C16_Idle ==
    (Done /\ Len(packetByte) >= 3 /\ B(packetByte, 0) = 255)
        => /\ IdleAnn \in Anns <=> B(packetByte, 1) = 0
           /\ SystemCommandAnns \cap Anns # {} <=> B(packetByte, 1) # 0
           /\ AnnsOf("COMMAND") \cap {a \in Anns : a.ss = BitPos(packetByte, 1, 0)}
                \subseteq SystemCommandAnns
           /\ Values(packetByte) = <<255, 0, 255>>
                => result.anns = <<IdleAnn, ChecksumOK>>

\* the idle packet was decoded
C16_Witness ==
    /\ Done /\ Values(packetByte) = <<255, 0, 255>>
    /\ IdleAnn \in Anns /\ ChecksumOK \in Anns /\ AnnsOf("ERROR") = {}


(***************************************************************************)
(* The broadcast speed instruction, checked under SpecSpeed.               *)
(***************************************************************************)
\* a packet of 3 or more bytes to address 0 with a second byte 01DCSSSS
BroadcastSpeed ==
    /\ Done /\ Len(packetByte) >= 3
    /\ B(packetByte, 0) = 0
    /\ Shr(B(packetByte, 1), 6) = 1

\* the speed bits SSSS of the second byte
SpeedBits == And(B(packetByte, 1), 15)

\* the Data annotation on the second byte
SpeedAnn(txt, val) ==
    Annotation(BitPos(packetByte, 1, 0), BitPos(packetByte, 1, 8), "DATA", txt, val)

\* the annotation on the first byte
AddressAnn(cat, txt) ==
    Annotation(BitPos(packetByte, 0, 0), BitPos(packetByte, 0, 8), cat, txt, 0)

\* C17: for a packet of 3 or more bytes with first byte 0 and a second byte
\* 010xxxxx or 011xxxxx the decoder extracts dec_addr = 0, labels the address
\* 'Broadcast', and reports on the second byte 'STOP (Broadcast)' when the
\* speed bits are 0, 'EMERGENCY STOP (HALT) (Broadcast)' when they are 1 and
\* 'Broadcast Speed: n' otherwise, n the speed step of the 14 or 28 step mode.
C17_BroadcastSpeed ==
    BroadcastSpeed
        => /\ result.dec_addr = 0
           /\ result.anns[1] = AddressAnn("DATA_DEC", "Broadcast")
           /\ result.anns[2] = AddressAnn("COMMAND", "Broadcast")
           /\ {a \in AnnsOf("DATA") : a.ss = BitPos(packetByte, 1, 0)} =
                {IF SpeedBits = 0 THEN SpeedAnn("STOP (Broadcast)", 0)
                 ELSE IF SpeedBits = 1
                 THEN SpeedAnn("EMERGENCY STOP (HALT) (Broadcast)", 0)
                 ELSE SpeedAnn("Broadcast Speed: ",
                               IF speed14 THEN SpeedBits - 1
                               ELSE (SpeedBits - 1) * 2 - 1
                                      + And(Shr(B(packetByte, 1), 4), 1))}

\* the packet 00 60 7E with its checksum was decoded: STOP (Broadcast)
C17_Witness ==
    /\ BroadcastSpeed
    /\ Values(packetByte) = <<0, 96, 126, 30>>
    /\ SpeedAnn("STOP (Broadcast)", 0) \in Anns
    /\ ChecksumOK \in Anns


(***************************************************************************)
(* C18  the accessory packet 10000001 10001000 and the Railcom NOP         *)
(***************************************************************************)
\* a handled packet of three bytes whose first byte is 10AAAAAA
AccessoryPacket ==
    Done /\ Len(packetByte) = 3 /\ B(packetByte, 0) \in 128 .. 191

\* the accessory address of the packet: 6 address bits of the first byte, the
\* 3 inverted address bits and the 2 port bits of the second byte, minus 3,
\* plus the configured offset
AccessoryAddress ==
    (7 - ((B(packetByte, 1) \div 16) % 8)) * 256
      + (B(packetByte, 0) % 64) * 4
      + ((B(packetByte, 1) \div 2) % 4)
      - 3 + AddrOffset

\* the DataAccessory annotation of the accessory address on the first byte
AccessoryAddressAnn ==
    Annotation(BitPos(packetByte, 0, 0), BitPos(packetByte, 0, 8), "DATA_ACC",
               "str(acc_addr)", AccessoryAddress)

\* the Data annotation 'Railcom NOP (AccQuery)' on the second byte
AccQueryAnn ==
    Annotation(BitPos(packetByte, 1, 0), BitPos(packetByte, 1, 8), "DATA",
               "Railcom NOP (AccQuery)", 0)

\* the Data annotation '0:on' of a basic accessory output on the second byte
OutputOnAnn ==
    Annotation(BitPos(packetByte, 1, 0), BitPos(packetByte, 1, 8), "DATA",
               ":on", 0)

\* the packet of the claim: 10000001 10001000 and its checksum
IsPacket_81_88 == Values(packetByte) = <<129, 136, 9>>

\* C18 as stated: the packet 10000001 10001000 with its checksum is decoded
\* as the Railcom NOP (AccQuery) sub-case, and its accessory address is
\* emitted as a DataAccessory annotation.
C18_Original ==
    (AccessoryPacket /\ IsPacket_81_88)
        => AccQueryAnn \in Anns /\ AccessoryAddressAnn \in Anns

\* C18: a three byte accessory packet is the Railcom NOP (AccQuery) sub-case
\* iff its second byte is 0xxx1xxx; the packet 10000001 10001000 with its
\* checksum has bit 7 of the second byte set and is decoded as the basic
\* accessory output command '0:on'.  In both sub-cases (the basic one unless
\* the address is the broadcast address 2047 - 3) the accessory address, taken
\* from the 6 address bits of the first byte, the 3 inverted address bits and
\* the port bits of the second byte, minus 3, plus the offset, is emitted as
\* a DataAccessory annotation on the first byte.
C18_Accessory ==
    AccessoryPacket
        => /\ AccQueryAnn \in Anns <=> And(B(packetByte, 1), 136) = 8
           /\ result.acc_addr = AccessoryAddress
           /\ ( \/ And(B(packetByte, 1), 136) = 8
                \/ /\ B(packetByte, 1) >= 128
                   /\ AccessoryAddress + 3 # 2047 )
                => AccessoryAddressAnn \in Anns
           /\ IsPacket_81_88
                => /\ AccessoryAddress = 1793 + AddrOffset
                   /\ result.anns =
                        <<AddressAnn("COMMAND", "Basic Accessory Decoder"),
                          AccessoryAddressAnn, OutputOnAnn, ChecksumOK>>

\* the packet 10000001 10001000 was decoded with an address offset, as a
\* basic accessory output and not as a Railcom NOP
C18_Witness ==
    /\ AccessoryPacket
    /\ IsPacket_81_88
    /\ AddrOffset = 4
    /\ AccessoryAddressAnn \in Anns
    /\ AccessoryAddressAnn.val = 1797
    /\ OutputOnAnn \in Anns
    /\ AccQueryAnn \notin Anns

\* the Railcom NOP 10000001 00001000 was decoded
C18_WitnessNOP ==
    /\ AccessoryPacket
    /\ Values(packetByte) = <<129, 8, 137>>
    /\ AccQueryAnn \in Anns
    /\ AccessoryAddressAnn \in Anns


(***************************************************************************)
(* C19  the half 1 counter of the state SYNCRONIZESIGNAL                   *)
(***************************************************************************)
\* a pass of the loop starts in SYNCRONIZESIGNAL and does not run out of
\* edges
SyncPass ==
    /\ phase = "decoding"
    /\ self.dccStatus = "SYNCRONIZESIGNAL"
    /\ ConfigError = ""
    /\ phase' = "decoding"

\* the number of successive valid half 1 intervals of the signal that end
\* at the sample pos, 0 when pos is not at an edge
Half1Before(pos) ==
    IF \A i \in DOMAIN signal : EdgeAt(i) # pos THEN 0
    ELSE Half1RunBack(CHOOSE i \in DOMAIN signal : EdgeAt(i) = pos)

\* the annotation of the 0 bit that came after too few half 1 intervals
TooFewAnn(anns) ==
    \E i \in DOMAIN anns :
       /\ anns[i].cat = "FRAME_OTHER"
       /\ anns[i].txt = "Synchronize (wait for preamble) (too few half 1 bits ("
       /\ anns[i].val \in 1 .. 2 * minCountPreambleBits - 1

\* C19: in SYNCRONIZESIGNAL half1Counter counts successive half 1
\* intervals: a half 1 interval adds one and the intervals counted are the
\* valid half 1 intervals that end at edge_1; an interval that is neither a
\* half 1 interval nor the start of a 0 bit sets the counter to 0.  A valid
\* 0 bit while the counter is below 2 * minCountPreambleBits sets it to 0
\* and the state stays SYNCRONIZESIGNAL; a valid 0 bit when the counter has
\* reached 2 * minCountPreambleBits is the packet start bit: in the same pass
\* the state goes on from PREAMBLEFOUND to ADDRESSDATABYTE, 'Start Packet' is
\* put, and decodedBytes is empty.
C19_Half1Counter ==
    [][SyncPass =>
         /\ self.half1Counter <= Half1Before(self.edge_1)
         /\ isHalf1Bit(Span(self.edge_2 - self.edge_1))
              => /\ self'.dccStatus = "SYNCRONIZESIGNAL"
                 /\ self'.half1Counter = self.half1Counter + 1
         /\ (~isHalf1Bit(Span(self.edge_2 - self.edge_1)) /\ ~ZeroBitAhead)
              => /\ self'.dccStatus = "SYNCRONIZESIGNAL"
                 /\ self'.half1Counter = 0
         /\ (ZeroBitAhead /\ self.half1Counter < 2 * minCountPreambleBits)
              => /\ self'.dccStatus = "SYNCRONIZESIGNAL"
                 /\ self'.half1Counter = 0
         /\ (ZeroBitAhead /\ self.half1Counter >= 2 * minCountPreambleBits)
              => /\ self'.dccStatus = "ADDRESSDATABYTE"
                 /\ self'.decodedBytes = <<>>
                 /\ self'.dccBitCounter = 0
                 /\ self'.half1Counter = 0
                 /\ HasAnn(out', "FRAME", "Start Packet")]_vars

\* a 0 bit came after some, but too few, half 1 intervals: the counter is
\* back at 0 and the state is still SYNCRONIZESIGNAL
C19_Witness ==
    /\ phase = "decoding"
    /\ self.dccStatus = "SYNCRONIZESIGNAL"
    /\ self.half1Counter = 0
    /\ TooFewAnn(out)


(***************************************************************************)
(* C20  the end of the preamble in the state PREAMBLE                      *)
(***************************************************************************)
\* a pass starts in PREAMBLE and the next two intervals are read as a 0 bit
PreambleEnds ==
    /\ phase = "decoding"
    /\ self.dccStatus = "PREAMBLE"
    /\ ConfigError = ""
    /\ EdgeAfter(self.samplenum) # -1
    /\ LET part1 == Span(self.edge_2 - self.edge_1)
           part2 == Span(EdgeAfter(self.samplenum) - self.edge_2)
       IN /\ ~is1Bit(part1, part2)
          /\ is0Bit(part1, part2)
          /\ ~isRailcomCutout(self, part1 + part2)

\* the edges from dccStart to edge_1 are pairs of intervals that are valid
\* 1 bits
OneBitsOnly ==
    /\ \E i \in DOMAIN signal : EdgeAt(i) = self.dccStart
    /\ \E j \in DOMAIN signal : EdgeAt(j) = self.edge_1
    /\ LET i == CHOOSE k \in DOMAIN signal : EdgeAt(k) = self.dccStart
           j == CHOOSE k \in DOMAIN signal : EdgeAt(k) = self.edge_1
       IN /\ j > i /\ (j - i) % 2 = 0
          /\ \A k \in 0 .. (j - i) \div 2 - 1 : BitAt(i + 2 * k) = 1

\* the number of 1 bits of the signal from dccStart to edge_1
OneBits ==
    LET i == CHOOSE k \in DOMAIN signal : EdgeAt(k) = self.dccStart
        j == CHOOSE k \in DOMAIN signal : EdgeAt(k) = self.edge_1
    IN (j - i) \div 2

\* 1 when the stop bit of the packet before is counted: never in the three
\* compliance testing modes
Credit ==
    IF /\ self.lastPacketWasStop
       /\ timingModeNo \notin {timingRCNcomplianceT, timingRCNcomplianceS,
                               timingNMRAcompliance}
    THEN 1 ELSE 0

\* the Error annotation 'Invalid preamble (too few 1-bits ...' is among anns
InvalidPreamble(anns) ==
    \/ HasAnn(anns, "ERROR", "Invalid preamble (too few 1-bits (")
    \/ HasAnn(anns, "ERROR", "Invalid preamble (too few 1-bits (1+")

\* C20: in PREAMBLE, the 1 bits since the first one of the preamble number
\* dccBitCounter + 1 = n; at the first 0 bit after them the start bit is
\* accepted ('Start Packet' put, state ADDRESSDATABYTE, decodedBytes empty)
\* iff n + credit >= minCountPreambleBits, where credit is 1 when the last
\* packet's stop bit counts and always 0 in the three compliance testing
\* modes; otherwise the Error 'Invalid preamble' is put and the state becomes
\* SYNCRONIZESIGNAL.
C20_PreambleEnd ==
    [][PreambleEnds =>
         /\ OneBitsOnly => OneBits = self.dccBitCounter + 1
         /\ IF self.dccBitCounter + 1 + Credit >= minCountPreambleBits
            THEN /\ self'.dccStatus = "ADDRESSDATABYTE"
                 /\ self'.decodedBytes = <<>>
                 /\ HasAnn(out', "FRAME", "Start Packet")
                 /\ ~InvalidPreamble(out')
            ELSE /\ self'.dccStatus = "SYNCRONIZESIGNAL"
                 /\ InvalidPreamble(out')
                 /\ ~HasAnn(out', "FRAME", "Start Packet")]_vars

\* the start bit was accepted after minCountPreambleBits - 1 bits of
\* preamble, the stop bit of the packet before making up the number
C20_Witness ==
    /\ phase = "decoding"
    /\ self.dccStatus = "ADDRESSDATABYTE"
    /\ self.decodedBytes = <<>>
    /\ HasAnn(out, "FRAME", "Start Packet")
    /\ \E a \in DOMAIN out :
         /\ out[a].cat = "FRAME" /\ out[a].txt = "Preamble: 1+"
         /\ out[a].val = minCountPreambleBits - 1


(***************************************************************************)
(* C21  the stop bit of the last packet counted as a preamble bit          *)
(***************************************************************************)
\* the annotations 'Preamble: 1+n bits' put in this pass with n below
\* minCountPreambleBits: the start bit was accepted on the strength of the
\* stop bit of the packet before
CreditedPreambles ==
    {a \in DOMAIN out :
       /\ out[a].cat = "FRAME" /\ out[a].txt = "Preamble: 1+"
       /\ out[a].val < minCountPreambleBits}

\* the two intervals that end at the sample pos are a valid 1 bit
OneBitBefore(pos) ==
    \E i \in DOMAIN signal : i > 2 /\ EdgeAt(i) = pos /\ BitAt(i - 2) = 1

\* C21: the extra count for the stop bit of the packet before is applied
\* only when the 1 bits of the preamble come right after that stop bit: a
\* preamble accepted with fewer than minCountPreambleBits 1 bits of its own
\* starts where a 1 bit (the stop bit) ends.
C21_StopBitAdjacent ==
    (phase = "decoding" /\ self.dccStatus = "ADDRESSDATABYTE")
        => \A a \in CreditedPreambles : OneBitBefore(out[a].ss)

\* a preamble of minCountPreambleBits - 1 bits right after the stop bit was
\* accepted
C21_Adjacent ==
    /\ phase = "decoding" /\ self.dccStatus = "ADDRESSDATABYTE"
    /\ \E a \in CreditedPreambles : OneBitBefore(out[a].ss)


(***************************************************************************)
(* C22  the byte records built in ADDRESSDATABYTE                          *)
(***************************************************************************)
\* the two intervals from the sample pos on are edges of the signal, end at
\* the sample next and form the valid bit b
BitFrom(pos, next, b) ==
    \E i \in DOMAIN signal :
       /\ EdgeAt(i) = pos /\ i + 2 <= Len(signal) /\ EdgeAt(i + 2) = next
       /\ BitAt(i) = b

\* bit k (1 the first received) of a byte value
BitOf(value, k) == (value \div Pow2(8 - k)) % 2

\* a byte record: a value 0..255 and 9 positions that do not decrease, the
\* starts of the 8 bits and the end of the last; the bit received k-th is
\* bit 8 - k of the value
ByteRecordOK(rec) ==
    /\ Len(rec) = 2
    /\ rec[1] \in 0 .. 255
    /\ Len(rec[2]) = 9
    /\ \A k \in 1 .. 8 :
          /\ rec[2][k] <= rec[2][k + 1]
          /\ \A b \in {0, 1} :
                BitFrom(rec[2][k], rec[2][k + 1], b) => BitOf(rec[1], k) = b

\* the records and the bit counter of the decoder state s
ByteRecordsOK(s) ==
    /\ s.dccBitCounter <= 8
    /\ \A i \in DOMAIN s.decodedBytes : ByteRecordOK(s.decodedBytes[i])

\* the sequence a is the start of the sequence b
IsPrefix(a, b) == Len(a) <= Len(b) /\ \A i \in DOMAIN a : a[i] = b[i]

\* C22: in ADDRESSDATABYTE every completed byte record has the value
\* b7*128 + ... + b0 of the eight bits received, the first received the most
\* significant, a value in 0..255, and carries exactly 9 positions that do
\* not decrease (the starts of the 8 bits and the end of the 8th); the bit
\* counter never exceeds 8; a pass that stays in ADDRESSDATABYTE leaves the
\* records appended so far as they are and appends at most one.
C22_ByteRecords ==
    [][(phase' = "decoding" /\ self'.dccStatus = "ADDRESSDATABYTE")
         => /\ ByteRecordsOK(self')
            /\ (phase = "decoding" /\ self.dccStatus = "ADDRESSDATABYTE")
                 => /\ IsPrefix(self.decodedBytes, self'.decodedBytes)
                    /\ Len(self'.decodedBytes) <= Len(self.decodedBytes) + 1]_vars

\* two bytes of the packet 03 64 67 are complete, each bit of the first one
\* read from two intervals of the signal
C22_Witness ==
    /\ phase = "decoding" /\ self.dccStatus = "ADDRESSDATABYTE"
    /\ Len(self.decodedBytes) = 2
    /\ self.decodedBytes[1][1] = 3 /\ self.decodedBytes[2][1] = 100
    /\ self.dccBitCounter = 8
    /\ \A k \in 1 .. 8 :
         BitFrom(self.decodedBytes[1][2][k], self.decodedBytes[1][2][k + 1],
                 IF k >= 7 THEN 1 ELSE 0)


(***************************************************************************)
(* C23  the bit after a completed byte                                     *)
(***************************************************************************)
\* a pass starts in the state status with the next two intervals a valid
\* bit b (a 0 bit that is not taken as a Railcom cutout)
BitAhead(status, b) ==
    /\ phase = "decoding"
    /\ self.dccStatus = status
    /\ ConfigError = ""
    /\ EdgeAfter(self.samplenum) # -1
    /\ LET part1 == Span(self.edge_2 - self.edge_1)
           part2 == Span(EdgeAfter(self.samplenum) - self.edge_2)
       IN IF b = 1 THEN is1Bit(part1, part2)
          ELSE /\ ~is1Bit(part1, part2)
               /\ is0Bit(part1, part2)
               /\ ~isRailcomCutout(self, part1 + part2)

\* a byte is complete and the next bit is b
SeparatorAhead(b) == BitAhead("ADDRESSDATABYTE", b) /\ self.dccBitCounter = 8

\* this pass hands the bytes accumulated to handleDecodedBytes, once
HandsOver == handled' = Append(handled, Values(self.decodedBytes))

\* this pass hands nothing to handleDecodedBytes
HandsNothing == handled' = handled \/ handled' = <<>>

\* what the stop bit does when handleDecodedBytes returns
StopDone ==
    /\ self'.railcomCutoutPossible
    /\ self'.lastPacketWasStop
    /\ self'.decodedBytes = <<>>
    /\ self'.dccStatus = "WAITINGFORPREAMBLE"

\* C23: the bit after each completed byte is a separator: a 0 bit starts the
\* next byte and keeps the bytes accumulated; a 1 bit, the stop bit, hands
\* the bytes accumulated to handleDecodedBytes exactly once, sets
\* railcomCutoutPossible and lastPacketWasStop, empties decodedBytes and
\* moves to WAITINGFORPREAMBLE; no pass hands bytes over in any other way.
C23_Separator ==
    [][/\ SeparatorAhead(0)
            => /\ self'.dccStatus = "ADDRESSDATABYTE"
               /\ self'.decodedBytes = self.decodedBytes
               /\ self'.dccBitCounter = 0
               /\ HandsNothing
       /\ SeparatorAhead(1) => HandsOver /\ StopDone
       /\ ~SeparatorAhead(1) => HandsNothing]_vars

\* the stop bit whose packet makes handleDecodedBytes raise: the packet was
\* handed over and the decoder is left in ADDRESSDATABYTE with its bytes
StopRaised ==
    /\ phase = "crashed"
    /\ self.dccStatus = "ADDRESSDATABYTE"
    /\ self.dccBitCounter = 8
    /\ handled # <<>>
    /\ handled[Len(handled)] = Values(self.decodedBytes)
    /\ ~self.railcomCutoutPossible /\ ~self.lastPacketWasStop

\* the separator rule for every pass in which handleDecodedBytes does not
\* raise
SeparatorUnlessRaised ==
    [][phase' # "crashed" =>
         /\ SeparatorAhead(0)
              => /\ self'.dccStatus = "ADDRESSDATABYTE"
                 /\ self'.decodedBytes = self.decodedBytes
                 /\ self'.dccBitCounter = 0
                 /\ HandsNothing
         /\ SeparatorAhead(1) => HandsOver /\ StopDone
         /\ ~SeparatorAhead(1) => HandsNothing]_vars

\* a packet of three bytes was handed over at its stop bit
StopHandedOver ==
    /\ phase = "decoding"
    /\ self.dccStatus = "WAITINGFORPREAMBLE"
    /\ self.railcomCutoutPossible /\ self.lastPacketWasStop
    /\ handled # <<>> /\ handled[Len(handled)] = <<3, 100, 103>>
    /\ HasAnn(out, "FRAME", "Stop Packet")


(***************************************************************************)
(* C24  nothing of a packet survives a resynchronization                   *)
(***************************************************************************)
\* the decoder state s holds nothing of a packet
NoPacketState(s) ==
    /\ s.decodedBytes = <<>>
    /\ s.dccBitCounter = 0
    /\ ~s.railcomCutoutPossible
    /\ ~s.broken1bitPossible
    /\ ~s.lastPacketWasStop

\* every byte record of the buffer starts at or after the sample pos
BytesSince(pos) ==
    \A i \in DOMAIN self.decodedBytes : self.decodedBytes[i][2][1] >= pos

\* C24: whenever the state is SYNCRONIZESIGNAL, decodedBytes is empty,
\* dccBitCounter is 0 and railcomCutoutPossible, broken1bitPossible and
\* lastPacketWasStop are false; after an unknown timing or invalid preamble
\* error the buffer holds, and so the stop bit hands over, only bytes
\* received after the error.
C24_NothingSurvives ==
    /\ self.dccStatus = "SYNCRONIZESIGNAL" => NoPacketState(self)
    /\ Resynchronizing => BytesSince(errPos)

\* unknown timing was reported inside a packet of which a byte had been
\* read, and the decoder is in SYNCRONIZESIGNAL
C24_Witness ==
    /\ Resynchronizing
    /\ self.dccStatus = "SYNCRONIZESIGNAL"
    /\ self.edge_1 = errPos
    /\ HasAnn(out, "ERROR", "unknown timing - should not occur - dirty signal?")
    /\ \E i \in DOMAIN signal :
         /\ EdgeAt(i) < errPos
         /\ BitAt(i) = 0 /\ ByteAt(i + 2) = 3 /\ BitAt(i + 18) = 0


(***************************************************************************)
(* C25  railcomCutoutPossible                                              *)
(***************************************************************************)
\* this pass consumed a Railcom cutout
CutoutConsumed(anns) == HasAnn(anns, "BITS", "Railcom cutout")

\* this pass ignored a short pulse and classified nothing
PulseIgnored(anns) ==
    \E t \in {"Short pulse ignored (1)", "Short pulse ignored (2)",
              "Short pulse ignored (3)"} : HasAnn(anns, "INFO", t)

\* C25: railcomCutoutPossible is set only by a stop bit, whose end is the
\* edge_1 of the next pass, and whenever it is set the state is
\* WAITINGFORPREAMBLE; the next pass classifies the intervals from that edge
\* on as a 1 bit, a 0 bit, a Railcom cutout or unknown timing and clears it
\* (a pass that only ignores a short pulse keeps it and edge_1), so that a
\* cutout is consumed only directly after a stop bit and once.
C25_CutoutEligible ==
    [][/\ self.railcomCutoutPossible => self.dccStatus = "WAITINGFORPREAMBLE"
       /\ self'.railcomCutoutPossible => self'.dccStatus = "WAITINGFORPREAMBLE"
       /\ (self'.railcomCutoutPossible /\ ~self.railcomCutoutPossible)
            => /\ SeparatorAhead(1)
               /\ phase' = "decoding" => self'.edge_1 = EdgeAfter(self.samplenum)
       /\ (self.railcomCutoutPossible /\ phase' = "decoding")
            => \/ ~self'.railcomCutoutPossible
               \/ /\ PulseIgnored(out')
                  /\ self'.edge_1 = self.edge_1
                  /\ ~CutoutConsumed(out')
       /\ (phase = "decoding" /\ CutoutConsumed(out'))
            => /\ self.railcomCutoutPossible
               /\ ~self'.railcomCutoutPossible]_vars

\* a Railcom cutout was consumed in the pass after the stop bit
C25_Witness ==
    /\ phase = "decoding"
    /\ self.dccStatus = "WAITINGFORPREAMBLE"
    /\ CutoutConsumed(out)
    /\ ~self.railcomCutoutPossible
    /\ self.broken1bitPossible
    /\ handled # <<>>


(***************************************************************************)
(* C26  isRailcomCutout                                                    *)
(***************************************************************************)
\* the timing mode is one of the three compliance testing modes
ComplianceMode ==
    timingModeNo \in {timingNMRAcompliance, timingRCNcomplianceT,
                      timingRCNcomplianceS}

\* the total of the two intervals drawn, in quarter microseconds
Total == halves[1] + halves[2]

\* the total lies in the cutout window that starts at lo microseconds, made
\* wider by the accuracy below and by two half 1 bits and accuracies above
InWindowFrom(lo) ==
    /\ 4 * lo - accuracy <= Total
    /\ Total <= 4 * 488 + 2 * (TimingAt(timingModeNo, BIT1MAX) + accuracy)

\* C26 as stated: isRailcomCutout(total) is true iff the mode is no
\* compliance testing mode, a cutout is eligible and the total lies in the
\* window that starts at 453 us.
C26_Original ==
    verdict.done
        => (verdict.cutout
              <=> ~ComplianceMode /\ self.railcomCutoutPossible /\ InWindowFrom(453))

\* C26: isRailcomCutout(total) is true iff the mode is no compliance testing
\* mode, railcomCutoutPossible is set and
\* 454 - accuracy <= total <= 488 + 2 * (half1Max + accuracy): the nominal
\* window is 454..488 us.
C26_Cutout ==
    verdict.done
        => (verdict.cutout
              <=> ~ComplianceMode /\ self.railcomCutoutPossible /\ InWindowFrom(454))

\* right after a stop bit in a decoding mode the total 454 us less the
\* accuracy is a Railcom cutout
C26_Witness ==
    /\ verdict.done
    /\ ~ComplianceMode /\ self.railcomCutoutPossible
    /\ Total = 4 * 454 - accuracy
    /\ verdict.cutout


(***************************************************************************)
(* C27  the broken 1 bit after a Railcom cutout                            *)
(***************************************************************************)
\* this pass ignored a broken 1 bit
BrokenAbsorbed(anns) == HasAnn(anns, "FRAME_OTHER", "broken 1-bit")

\* the total of the two intervals the pass reads, -1 when the signal ends
TotalAhead ==
    IF EdgeAfter(self.samplenum) = -1 THEN -1
    ELSE Span(EdgeAfter(self.samplenum) - self.edge_1)

\* the two intervals the pass reads are too short to be anything but a
\* broken 1 bit: no valid 1 bit, no valid 0 bit, at most half1Max + accuracy
ShortAhead ==
    /\ phase = "decoding" /\ ConfigError = ""
    /\ self.dccStatus = "WAITINGFORPREAMBLE"
    /\ ~BitAhead("WAITINGFORPREAMBLE", 1)
    /\ TotalAhead # -1
    /\ ~is0Bit(Span(self.edge_2 - self.edge_1),
               Span(EdgeAfter(self.samplenum) - self.edge_2))
    /\ TotalAhead <= TimingAt(timingModeNo, BIT1MAX) + accuracy

\* C27 as stated: after a Railcom cutout and one broken 1 bit ignored, a
\* second pair of intervals that is no valid 1 bit, no valid 0 bit and at
\* most half1Max + accuracy long gives the unknown timing Error and the
\* state SYNCRONIZESIGNAL.
C27_Original ==
    [][(ShortAhead /\ BrokenAbsorbed(out))
         => /\ UnknownTimingIn(out')
            /\ self'.dccStatus = "SYNCRONIZESIGNAL"]_vars

\* C27: broken1bitPossible is set only by a consumed Railcom cutout and the
\* pass after it clears it; a broken 1 bit is ignored, without an Error and
\* with the state still WAITINGFORPREAMBLE, only in that pass and only when
\* its two intervals are no valid 1 bit, no valid 0 bit and total at most
\* half1Max + accuracy, and then it is ignored; such intervals in any other
\* pass, so a second time, give the unknown timing Error and the state
\* SYNCRONIZESIGNAL when short pulses are not ignored; when they are, a
\* pulse of at most maxInterferingPulseWidth among them is ignored and the
\* state kept, and other intervals give the same Error.
C27_Broken1Bit ==
    [][phase = "decoding" =>
         /\ (self'.broken1bitPossible /\ ~self.broken1bitPossible)
              => CutoutConsumed(out')
         /\ (self.broken1bitPossible /\ phase' = "decoding")
              => ~self'.broken1bitPossible \/ PulseIgnored(out')
         /\ BrokenAbsorbed(out')
              => /\ self.broken1bitPossible /\ ShortAhead
                 /\ ~HasCat(out', "ERROR")
                 /\ phase' = "decoding"
                      => /\ self'.dccStatus = "WAITINGFORPREAMBLE"
                         /\ ~self'.broken1bitPossible
         /\ (ShortAhead /\ self.broken1bitPossible) => BrokenAbsorbed(out')
         /\ (ShortAhead /\ ~self.broken1bitPossible /\ phase' = "decoding")
              => \/ /\ UnknownTimingIn(out')
                    /\ self'.dccStatus = "SYNCRONIZESIGNAL"
                 \/ /\ ignoreInterferingPulse = "yes"
                    /\ PulseIgnored(out')
                    /\ ~HasCat(out', "ERROR")
                    /\ self'.dccStatus = "WAITINGFORPREAMBLE"]_vars

\* a broken 1 bit was ignored after a Railcom cutout and the same two
\* intervals come again
C27_Witness ==
    /\ ShortAhead
    /\ ~self.broken1bitPossible
    /\ BrokenAbsorbed(out)
    /\ ignoreInterferingPulse = "no"

(***************************************************************************)
(* The classifiers with `compare experimental timing' on.                  *)
(***************************************************************************)
\* isHalf1Bit as a decoder answers whose only profile is TM (pd.py:1794-1799
\* without the lines of timingCompare)
AloneHalf1(TM, sample) ==
    AtLeast(TM, BIT1MIN, sample) /\ AtMost(TM, BIT1MAX, sample)

\* is1Bit with the profile TM alone (pd.py:1815-1829)
Alone1(TM, part1, part2) ==
    /\ AloneHalf1(TM, part1)
    /\ AloneHalf1(TM, part2)
    /\ Abs(part1 - part2) <= Tolerance(TM)

\* is0Bit of a decoder whose timing mode is TM, with the same option
\* `allow streched zero' (pd.py:1858-1893)
Alone0(TM, part1, part2) ==
    IF /\ TM \in {timingRCNdecoder, timingRCNcomplianceT, timingRCNcomplianceS,
                  timingExperimental}
       /\ rcnAllowStrechedZero = "no"
    THEN /\ AtLeast(TM, BIT0MIN, part1) /\ AtMost(TM, BIT0MAX, part1)
         /\ AtLeast(TM, BIT0MIN, part2) /\ AtMost(TM, BIT0MAX, part2)
    ELSE /\ AtLeast(TM, BIT0MIN, part1) /\ AtMost(TM, BIT0MAXSTRECHED, part1)
         /\ AtLeast(TM, BIT0MIN, part2) /\ AtMost(TM, BIT0MAXSTRECHED, part2)
         /\ TotalWithin(part1, part2)

\* the classifiers have answered with the comparison on
Compared == verdict.done /\ timingCompare = "on"

\* the variance annotations of the three classifiers are of the Variance
\* categories only
VarianceOnly(anns) ==
    \A i \in 1 .. Len(anns) : anns[i].cat \in {"VARIANCE1", "VARIANCE2"}

\* C28 as stated: with the comparison on, each classifier succeeds whenever
\* the active profile alone or the experimental profile alone accepts.
C28_Original ==
    Compared =>
      LET part1 == halves[1]
          part2 == halves[2]
      IN /\ (AloneHalf1(timingModeNo, part1)
               \/ AloneHalf1(timingExperimental, part1)) => verdict.half1
         /\ (Alone1(timingModeNo, part1, part2)
               \/ Alone1(timingExperimental, part1, part2)) => verdict.one
         /\ (Alone0(timingModeNo, part1, part2)
               \/ Alone0(timingExperimental, part1, part2)) => verdict.zero

\* C28: with the comparison on, isHalf1Bit and is1Bit succeed whenever the
\* active profile alone or the experimental profile alone accepts; is0Bit
\* succeeds whenever the active profile alone accepts, and whenever the
\* experimental profile alone accepts and the two halves total at most
\* BIT0MAXSTRECHEDTOTAL + 2 * accuracy; what a disagreement adds are
\* Variance annotations only.
C28_Compare ==
    Compared =>
      LET part1 == halves[1]
          part2 == halves[2]
      IN /\ (AloneHalf1(timingModeNo, part1)
               \/ AloneHalf1(timingExperimental, part1)) => verdict.half1
         /\ (Alone1(timingModeNo, part1, part2)
               \/ Alone1(timingExperimental, part1, part2)) => verdict.one
         /\ Alone0(timingModeNo, part1, part2) => verdict.zero
         /\ (Alone0(timingExperimental, part1, part2)
               /\ TotalWithin(part1, part2)) => verdict.zero
         /\ VarianceOnly(isHalf1BitVariance(self, part1))
         /\ VarianceOnly(is1BitVariance(self, part1, part2))
         /\ VarianceOnly(is0BitVariance(self, part1, part2))

\* the profiles disagree on a 1 bit: the active profile alone rejects it,
\* the experimental profile alone accepts it, is1Bit succeeds and reports
\* the variance
C28_Witness ==
    /\ Compared
    /\ ~Alone1(timingModeNo, halves[1], halves[2])
    /\ Alone1(timingExperimental, halves[1], halves[2])
    /\ verdict.one
    /\ is1BitVariance(self, halves[1], halves[2]) # <<>>

(***************************************************************************)
(* Passes of decode under a configuration error.                           *)
(***************************************************************************)
\* the option o is filled in with something that is no number of lo .. hi
OutOfRange(o, lo, hi) == o # <<>> /\ o[1] \notin lo .. hi

\* the bounds of the experimental profile are not numbers >= 0 in order
InvalidBounds ==
    \/ \E i \in 1 .. 6 : expTiming[i] < 0
    \/ expTiming[1] > expTiming[2]
    \/ expTiming[4] > expTiming[5]
    \/ expTiming[4] > expTiming[6]
    \/ expTiming[5] > expTiming[6]

\* a configuration error that does not end decode: the sample rate is
\* below 25 kHz, a compliance mode was asked for below 2 MHz, a search
\* value is out of range, a compliance mode has fewer than 10 preamble
\* bits, or the experimental profile is in use with invalid bounds
Misconfigured ==
    \/ samplerate.hz < 25000
    \/ timingModeNo = timingINVALID
    \/ OutOfRange(options.Search_acc_addr, 1, 2048)
    \/ OutOfRange(options.Search_dec_addr, 0, 10239)
    \/ OutOfRange(options.Search_cv, 1, 16777216)
    \/ OutOfRange(options.Search_byte, 0, 255)
    \/ /\ timingModeNo \in {timingNMRAcompliance, timingRCNcomplianceT,
                            timingRCNcomplianceS}
       /\ preambleBitsCount < 10
    \/ /\ timingModeNo = timingExperimental \/ timingCompare = "on"
       /\ InvalidBounds

\* the state of the synchronizer and its byte buffer: every field of the
\* decoder but the edges held and the sample position
SyncFields(s) ==
    <<s.dccStatus, s.half1Counter, s.syncSignal, s.lastPacketWasStop,
      s.railcomCutoutPossible, s.broken1bitPossible, s.dccStart, s.dccLast,
      s.dccBitCounter, s.dccBitPos, s.dccValue, s.decodedBytes>>

\* the annotations are one Error and nothing else
OneError(anns) == Len(anns) = 1 /\ anns[1].cat = "ERROR"

\* C29: under a configuration error that does not end decode, every pass
\* of the loop puts exactly one Error annotation and nothing else (none
\* when the input ends within the window skipped), leaves the state of the
\* synchronizer and the byte buffer as they were, hands no packet to
\* handleDecodedBytes and raises nothing.
C29_ConfigError ==
    [][(phase = "decoding" /\ Misconfigured)
         => /\ phase' \in {"decoding", "eof"}
            /\ phase' = "decoding" => OneError(out')
            /\ phase' = "eof" => out' = <<>> \/ OneError(out')
            /\ SyncFields(self') = SyncFields(self)
            /\ SyncFields(self') = SyncFields(SelfAfterReset)
            /\ handled' = handled /\ handled' = <<>>]_vars

\* a pass has put its Error while the experimental profile is compared and
\* its bounds are invalid
C29_Witness ==
    /\ phase = "decoding"
    /\ Misconfigured
    /\ timingCompare = "on"
    /\ samplerate.hz = 2000000
    /\ OneError(out)
    /\ self.edge_1 > 0

(***************************************************************************)
(* The order of the edges held by decode.                                  *)
(***************************************************************************)
\* sample position b is the edge of the signal that follows the edge at a
Consecutive(a, b) ==
    /\ \E i \in DOMAIN signal : EdgeAt(i) = a
    /\ b = EdgeAfter(a)

\* the edges held between two passes are in order and none lies after the
\* position read, so that whatever wait() gives next is later than them
HeldInOrder(s) == s.edge_1 < s.edge_2 /\ s.edge_2 <= s.samplenum

\* the edges the pass pulled as edge_3 and edge_4 are later than the edges
\* it held and in order (-1: not pulled)
PulledInOrder(s, t) ==
    /\ t.edge_3 # -1 => (s.edge_2 < t.edge_3 /\ s.samplenum < t.edge_3)
    /\ t.edge_4 # -1 => (t.edge_3 # -1 /\ t.edge_3 < t.edge_4)

\* the pass from s to t dropped and moved no edge: it held two successive
\* edges of the signal, holds two successive edges after it, and the window
\* has moved on by one edge or by two
NothingDropped(s, t) ==
    /\ Consecutive(s.edge_1, s.edge_2) /\ s.samplenum = s.edge_2
    /\ Consecutive(t.edge_1, t.edge_2) /\ t.samplenum = t.edge_2
    /\ t.edge_1 \in {s.edge_2, EdgeAfter(s.edge_2)}

\* the edges are held and pulled in order in every pass
InOrder ==
    /\ HeldInOrder(self)
    /\ phase' = "decoding" => (HeldInOrder(self') /\ PulledInOrder(self, self')
                               /\ self.edge_1 <= self'.edge_1)

\* C30 as stated: the edges are held and pulled in order in every pass, and
\* with Ignore_short_pulse = no no pass drops or moves an edge.
C30_Original ==
    [][phase = "decoding" =>
         /\ InOrder
         /\ (ignoreInterferingPulse = "no" /\ phase' = "decoding")
              => NothingDropped(self, self')]_vars

\* C30: in every pass of the loop edge_1 < edge_2 holds, the edges pulled
\* as edge_3 and edge_4 are later than every edge held and in order, also
\* when a short pulse is ignored; with Ignore_short_pulse = no and no
\* configuration error no pass drops or moves an edge.  (Under a
\* configuration error a pass skips 99 samples with the edges in them.)
C30_EdgeOrder ==
    [][phase = "decoding" =>
         /\ InOrder
         /\ (ignoreInterferingPulse = "no" /\ ~Misconfigured /\ phase' = "decoding")
              => NothingDropped(self, self')]_vars

\* two pulses of at most maxInterferingPulseWidth were merged: edge_2 was
\* moved to the middle of edge_2 and edge_4
C30_Witness ==
    /\ phase = "decoding"
    /\ HasAnn(out, "INFO", "Short pulse ignored (1)")
    /\ self.edge_2 = out[Len(out)].ss
    /\ self.edge_2 < self.edge_4
    /\ HeldInOrder(self)

(***************************************************************************)
(* The CRC of DCC-A packets.                                               *)
(***************************************************************************)
\* the call ended on a DCC-A packet without an early return or an exception
DccaDone ==
    /\ Done /\ B(packetByte, 0) = 254 /\ Len(packetByte) >= 3
    /\ ~result.ret /\ result.exc = ""

\* the call put an annotation of category cat with text txt on the bytes
\* i .. j of the packet
PutOn(i, j, cat, txt) ==
    \E n \in DOMAIN result.anns :
       /\ result.anns[n].cat = cat /\ result.anns[n].txt = txt
       /\ result.anns[n].ss = BitPos(packetByte, i, 0)
       /\ result.anns[n].es = BitPos(packetByte, j, 8)

\* byte k of the packet was taken as the CRC
CrcAt(k) == PutOn(k, k, "COMMAND", "CRC")

CrcPositions == {k \in 0 .. Len(packetByte) - 1 : CrcAt(k)}

\* the verdicts on the CRC byte k
CrcOK(k) == PutOn(k, k, "FRAME", "CRC: OK")

CrcFalse == PutOn(0, -2, "ERROR", "CRC false")

\* no byte is left for a CRC before the last one
CrcMissing == PutOn(0, LastByte, "ERROR", "CRC or Checksum missing")

\* the packet is refused for its length (Read Block)
UnknownLength == HasAnn(result.anns, "ERROR", "Unknown Paket, length: ")

\* the XOR checksum was verified
ChecksumVerified ==
    \/ PutOn(LastByte, LastByte, "FRAME", "Checksum: OK")
    \/ PutOn(0, LastByte, "ERROR", "Checksum")

\* the command byte is 0b1101xxxx or 0b1110xxxx
LogonCommand == B(packetByte, 1) \in 208 .. 239

ManufacturerIDs ==
    {result.anns[n].val : n \in {m \in DOMAIN result.anns :
                                   /\ result.anns[m].cat = "DATA"
                                   /\ result.anns[m].txt = "hex(HHHH)"}}

\* C38: in a packet with first byte 254 and command byte 0b1101xxxx or
\* 0b1110xxxx the value reported as the 12 bit manufacturer ID is
\* (commandByte & 0x0F) * 256 + the following byte.
C38_ManufacturerID ==
    (Done /\ B(packetByte, 0) = 254 /\ Len(packetByte) >= 3 /\ LogonCommand)
      => \A v \in ManufacturerIDs :
            v = And(B(packetByte, 1), 15) * 256 + B(packetByte, 2)

\* what the decoder reports: the following byte alone
ManufacturerLowByte ==
    (Done /\ B(packetByte, 0) = 254 /\ Len(packetByte) >= 3 /\ LogonCommand)
      => /\ result.exc = "" => ManufacturerIDs = {B(packetByte, 2)}
         /\ ManufacturerIDs \subseteq {B(packetByte, 2)}

\* a LOGON_ASSIGN packet whose command byte has low bits set was decoded
ManufacturerHighBits ==
    /\ Done /\ B(packetByte, 0) = 254 /\ B(packetByte, 1) = 229
    /\ ManufacturerIDs # {}

(***************************************************************************)
(* crc_calc and CRC against the shift register.                            *)
(***************************************************************************)
\* the CRC-8 shift register with the reflected polynomial 0x8C: the byte
\* data is shifted in, lowest bit first, into the register holding reg
RECURSIVE ShiftRegister(_, _, _)
ShiftRegister(reg, data, bits) ==
    IF bits = 0 THEN reg
    ELSE LET mix == (reg + data) % 2
             shifted == reg \div 2
         IN ShiftRegister(IF mix = 1 THEN Xor(shifted, 140) ELSE shifted,
                          data \div 2, bits - 1)

\* C39: crc_calc(d) is what the CRC-8 shift register with the reflected
\* polynomial 0x8C holds after the byte d was shifted into the zero
\* register; crc_calc(a XOR b) = crc_calc(a) XOR crc_calc(b); CRC is the
\* register after all bytes of the packet but the last two were shifted in,
\* starting from 0.
C39_CRC8 ==
    verdict.done =>
      LET a == B(packetByte, 0)
          b == B(packetByte, 1)
      IN /\ verdict.first = ShiftRegister(0, a, 8)
         /\ verdict.second = ShiftRegister(0, b, 8)
         /\ verdict.both = Xor(verdict.first, verdict.second)
         /\ verdict.crc = ShiftRegister(ShiftRegister(0, a, 8), b, 8)
         /\ verdict.crc = crc_calc(Xor(b, crc_calc(Xor(a, 0))))

\* the CRC of the bytes 0xFE 0xE5 was computed, with two bytes after them
\* that are not zero
C39_Witness ==
    /\ verdict.done
    /\ B(packetByte, 0) = 254 /\ B(packetByte, 1) = 229
    /\ B(packetByte, 2) = 255
    /\ verdict.crc = ShiftRegister(ShiftRegister(0, 254, 8), 229, 8)
    /\ verdict.crc # 0

(***************************************************************************)
(* The comparison and times that neither profile accepts.                  *)
(***************************************************************************)
\* C40: with the comparison on, a time that neither the active profile
\* alone nor the experimental profile alone accepts is no half 1 bit, no
\* 1 bit and no 0 bit.
C40_NoMixedBounds ==
    Compared =>
      LET part1 == halves[1]
          part2 == halves[2]
      IN /\ verdict.half1 => \/ AloneHalf1(timingModeNo, part1)
                             \/ AloneHalf1(timingExperimental, part1)
         /\ verdict.one => \/ Alone1(timingModeNo, part1, part2)
                           \/ Alone1(timingExperimental, part1, part2)
         /\ verdict.zero => \/ Alone0(timingModeNo, part1, part2)
                            \/ Alone0(timingExperimental, part1, part2)

\* what the code tests for a half 1 bit (pd.py:1794-1799): the time is at
\* least the lower of the two minima and at most the higher of the two
\* maxima
Half1BetweenOuterBounds ==
    Compared =>
      (verdict.half1 <=>
         /\ \/ AtLeast(timingModeNo, BIT1MIN, halves[1])
            \/ AtLeast(timingExperimental, BIT1MIN, halves[1])
         /\ \/ AtMost(timingModeNo, BIT1MAX, halves[1])
            \/ AtMost(timingExperimental, BIT1MAX, halves[1]))

\* a time between the two profiles was taken as a half 1 bit: above the
\* maximum of the active profile and below the minimum of the experimental
\* one
Half1BetweenProfiles ==
    /\ Compared
    /\ verdict.half1
    /\ ~AtMost(timingModeNo, BIT1MAX, halves[1])
    /\ ~AtLeast(timingExperimental, BIT1MIN, halves[1])

(***************************************************************************)
(* The spans of the annotations.                                           *)
(***************************************************************************)
\* the annotation a ends before it starts
Reversed(a) == a.ss > a.es

\* the annotation a is the Error `Invalid preamble (too few 1-bits ...'
IsInvalidPreamble(a) ==
    /\ a.cat = "ERROR"
    /\ a.txt \in {"Invalid preamble (too few 1-bits (",
                  "Invalid preamble (too few 1-bits (1+"}

\* C32: every annotation the decoder puts has startSample <= endSample, the
\* annotations Preamble and Invalid preamble among them.
C32_SpanOrder ==
    \A i \in 1 .. Len(out) : ~Reversed(out[i])

\* what the code does: the annotations that end before they start are
\* Invalid preamble annotations; they end at dccLast, the last 1 bit of the
\* preamble before (pd.py:1736), or 0 when there was none
StaleLastPreambleBit ==
    \A i \in 1 .. Len(out) :
       Reversed(out[i]) =>
         /\ IsInvalidPreamble(out[i])
         /\ out[i].ss = self.dccStart
         /\ out[i].es = self.dccLast

\* after a packet a preamble of one 1 bit was ended by a 0 bit, and the
\* Invalid preamble annotation ends where the preamble of that packet ended
ReversedInvalidPreamble ==
    /\ self.dccStatus = "SYNCRONIZESIGNAL"
    /\ \E i \in 1 .. Len(out) :
          /\ IsInvalidPreamble(out[i])
          /\ out[i].es > 0
          /\ out[i].ss > out[i].es

(***************************************************************************)
(* The state PREAMBLEFOUND.                                                *)
(***************************************************************************)
\* the states in which a pass of decode can end
StatesBetweenPasses ==
    {"SYNCRONIZESIGNAL", "WAITINGFORPREAMBLE", "PREAMBLE", "ADDRESSDATABYTE"}

\* C33: between two passes of the loop of decode the state is one of
\* SYNCRONIZESIGNAL, WAITINGFORPREAMBLE, PREAMBLE and ADDRESSDATABYTE, never
\* PREAMBLEFOUND: the 0 bit that ends the synchronization is taken as the
\* start bit in the same pass; the Error 'unexpected 1-bit found' is never
\* put.
C33_PreambleFoundTransient ==
    /\ self.dccStatus \in StatesBetweenPasses
    /\ ~HasAnn(out, "ERROR", "unexpected 1-bit found")

\* a pass has ended the synchronization: it has put the 0 bit and 'Start
\* Packet' without a Preamble annotation, and the state is ADDRESSDATABYTE
C33_Witness ==
    /\ phase = "decoding"
    /\ self.dccStatus = "ADDRESSDATABYTE"
    /\ ~self.syncSignal
    /\ self.dccBitCounter = 0
    /\ HasAnn(out, "BITS", "0")
    /\ HasAnn(out, "FRAME", "Start Packet")
    /\ \A i \in DOMAIN out : out[i].es = self.edge_1
    /\ handled = <<>>

(***************************************************************************)
(* The search annotations with no search option filled in.                 *)
(***************************************************************************)
\* the categories of the search annotations
SearchCats ==
    {"SEARCH_ACC", "SEARCH_DEC", "SEARCH_CV", "SEARCH_BYTE", "SEARCH_COMMAND"}

\* the five search options are empty (pd.py:312-346 leave -255 and '')
NothingSearched ==
    /\ options = NoOptions
    /\ command_search = ""
    /\ acc_addr_search = -255 /\ dec_addr_search = -255
    /\ cv_addr_search = -255 /\ byte_search = -255

\* C34: with the five search options empty no annotation SearchAcc,
\* SearchDec, SearchCV, SearchByte or SearchCommand is put for any packet,
\* whatever the address offset.
C34_NoSearchUnset ==
    (Done /\ NothingSearched) =>
       \A i \in 1 .. Len(result.anns) : result.anns[i].cat \notin SearchCats

\* what the code does: with the options empty the only search annotation is
\* SearchAcc, put when the accessory address plus the offset is -255
SearchAccAtSentinel ==
    (Done /\ NothingSearched) =>
       \A i \in 1 .. Len(result.anns) :
          result.anns[i].cat \in SearchCats =>
            /\ result.anns[i].cat = "SEARCH_ACC"
            /\ result.acc_addr = -255
            /\ AddrOffset < 0

\* the accessory address 1 with the offset -256 was searched and found
SentinelFound ==
    /\ Done /\ NothingSearched
    /\ AddrOffset = -256
    /\ result.acc_addr = -255
    /\ \E i \in 1 .. Len(result.anns) : result.anns[i].cat = "SEARCH_ACC"

(***************************************************************************)
(* The broadcast to accessory decoders and the address offset.             *)
(***************************************************************************)
\* the packet is the broadcast to accessory decoders: first byte 0b10111111,
\* second byte 0b10000110 (basic) or 0b00000111 and a third byte of 0
\* (extended, ESTOP)
AccBroadcastPacket ==
    /\ Len(packetByte) >= 3
    /\ B(packetByte, 0) = 191
    /\ \/ Len(packetByte) \in {3, 4} /\ B(packetByte, 1) = 134
       \/ Len(packetByte) = 4 /\ B(packetByte, 1) = 7 /\ B(packetByte, 2) = 0

\* the address of the accessory decoder is labelled 'Broadcast'
LabelledBroadcast == HasAnn(result.anns, "DATA_ACC", "Broadcast")

\* C35: whatever the address offset, the accessory broadcast packets are
\* labelled 'Broadcast' and no packet to another accessory decoder (one whose
\* address bits are not those of the broadcast, 2047 - 3) is.
C35_BroadcastAnyOffset ==
    Done =>
      /\ AccBroadcastPacket => LabelledBroadcast
      /\ LabelledBroadcast => AccDecaddr(packetByte, 1) = 2044

\* what the code does: the label is put when the address with the offset
\* added is 2044 (pd.py:1219, 1248, 1309), that is for the broadcast packets
\* when the offset is 0 and for the packets to the address 2044 - offset
\* otherwise
BroadcastByOffsetAddress ==
    Done =>
      /\ LabelledBroadcast => /\ result.acc_addr = 2044
                              /\ AccDecaddr(packetByte, 1) = 2044 - AddrOffset
      /\ AddrOffset # 0 => ~(LabelledBroadcast /\ AccBroadcastPacket)

\* with the offset 1 the packet BF 84 to the accessory address 2043 is
\* labelled 'Broadcast'
OtherAddressBroadcast ==
    /\ Done
    /\ AddrOffset = 1
    /\ Len(packetByte) = 3
    /\ B(packetByte, 0) = 191 /\ B(packetByte, 1) = 132
    /\ LabelledBroadcast

\* with the offset 1 the broadcast packet BF 86 is not labelled 'Broadcast'
BroadcastNotLabelled ==
    /\ Done
    /\ AddrOffset = 1
    /\ AccBroadcastPacket
    /\ ~LabelledBroadcast

(***************************************************************************)
(* The broadcast to multi function decoders and the address forms.         *)
(***************************************************************************)
\* the packet is taken as an instruction for a multi function decoder with
\* a 7 bit or a 14 bit address (pd.py:503-532)
AddressForm ==
    /\ Len(packetByte) >= 3
    /\ B(packetByte, 0) \in (1 .. 127) \cup (192 .. 231)
    /\ ~(serviceMode /\ B(packetByte, 0) \in 112 .. 127)

\* what is put for a broadcast only: the address label, the reset packet,
\* the direction label of the speed commands (pd.py:511-514, 541-546, 616,
\* 691, 752)
BroadcastTexts ==
    {"Broadcast", "Decoder Reset packet", "STOP (Broadcast)",
     "EMERGENCY STOP (HALT) (Broadcast)", "Broadcast Speed: "}

\* the instruction was taken as one sent to all decoders
TakenAsBroadcast ==
    \/ \E i \in DOMAIN result.anns :
          /\ result.anns[i].cat \in {"DATA_DEC", "COMMAND", "DATA"}
          /\ result.anns[i].txt \in BroadcastTexts
    \/ /\ \E i \in DOMAIN result.anns :
             /\ result.anns[i].cat = "DATA"
             /\ result.anns[i].txt \in {"Model-Time", "Model-Date"}
       /\ ~HasAnn(result.anns, "ERROR", "Only Broadcast allowed")

\* C36: the broadcast reading of a multi function instruction (direction
\* label 'Broadcast', 'Decoder Reset packet', time commands without the
\* error 'Only Broadcast allowed') is applied to packets with first byte 0
\* only, never to a packet with a 7 bit or a 14 bit address.
C36_BroadcastFirstByteZero ==
    (Done /\ AddressForm) => ~TakenAsBroadcast

\* what the code does: the broadcast reading goes with the extracted address
\* 0, which the first byte 0 gives and the 14 bit address C0 00 as well; a
\* 7 bit address is never read so
BroadcastByExtractedAddress ==
    (Done /\ Len(packetByte) >= 3 /\ TakenAsBroadcast
          /\ B(packetByte, 0) \in (0 .. 127) \cup (192 .. 231)
          /\ ~(serviceMode /\ B(packetByte, 0) \in 112 .. 127)) =>
       /\ result.dec_addr = 0
       /\ \/ B(packetByte, 0) = 0
          \/ B(packetByte, 0) = 192 /\ B(packetByte, 1) = 0

\* the packet C0 00 00 C0 was decoded: a 14 bit address, annotated 'Decoder
\* Reset packet'
LongAddressZeroReset ==
    /\ Done
    /\ Values(packetByte) = <<192, 0, 0, 192>>
    /\ HasAnn(result.anns, "COMMAND", "Multi Function Decoder with 14 bit address")
    /\ HasAnn(result.anns, "COMMAND", "Decoder Reset packet")

(***************************************************************************)
(* The ranges of the extracted decoder address and CV number.              *)
(***************************************************************************)
\* C37: for every packet the extracted decoder address is -1 (none) or in
\* 0 .. 10239 and the extracted CV number is -1 (none) or in 1 .. 16777216:
\* each is a value that the search option of its kind accepts.
C37_ExtractedRanges ==
    Done =>
      /\ result.dec_addr \in {-1} \cup (0 .. 10239)
      /\ result.cv_addr = -1 \/ (1 <= result.cv_addr /\ result.cv_addr <= 16777216)
      /\ result.dec_addr # -1
           => SearchOption(<<result.dec_addr>>, 0, 10239) = result.dec_addr
      /\ result.cv_addr # -1
           => SearchOption(<<result.cv_addr>>, 1, 16777216) = result.cv_addr

\* the XPOM packet E7 FF EF FF FF FF .. was decoded: the highest decoder
\* address and the highest CV number
C37_Witness ==
    /\ Done
    /\ B(packetByte, 0) = 231
    /\ result.dec_addr = 10239
    /\ result.cv_addr = 16777216

=============================================================================
